---- MODULE Spec2Model ----
(***************************************************************************)
(* Outbound reply delivery of the gateway: the reply dispatcher            *)
(* (src/auto-reply/reply/reply-dispatcher.ts), modelled as the state       *)
(* machine its promise chain executes on the JavaScript event loop.        *)
(*                                                                         *)
(* One dispatcher is created (createReplyDispatcher); the caller issues    *)
(* enqueue calls (sendToolResult / sendBlockReply / sendFinalReply and     *)
(* their Async variants) and markComplete(); every accepted enqueue adds   *)
(* one link to sendChain, and the links run one after the other.           *)
(***************************************************************************)
EXTENDS Naturals, Integers, Sequences, FiniteSets, TLC

\* ------------------------------------------------------------------ bounds
MaxEnqueues == 2
MaxAttempts == 2
MaxTriggers == 4      \* run() invocations of the recovery loop
MaxCalls == 2         \* start() calls, and stop() calls, on the recovery loop
MaxPipelineEnqueues == 2   \* enqueue calls on the block reply pipeline
MaxFlushes == 1            \* flush() calls on the block reply pipeline
MaxFollowupEnqueues == 3   \* enqueueFollowupRun calls
MaxDrains == 2             \* runFollowup calls that fail
MaxPwCalls == 3            \* getPwAiModule calls
MaxSyncs == 1              \* syncTelegramMenuCommands calls
MaxMenuAttempts == 3       \* attempts of the Telegram retry runner
MaxLockPolls == 1          \* poll sleeps of acquireGatewayLock before its timeout

\* --------------------------------------------------------------- constants
DEFAULT_HUMAN_DELAY_MIN_MS == 800
DEFAULT_HUMAN_DELAY_MAX_MS == 2500
DEFAULT_REPLY_DELIVERY_TIMEOUT_MS == 0
DeliveryTimeoutOverrideMs == 5000

Kinds == {"tool", "block", "final"}

\* Texts a caller hands in: a plain reply, an empty reply, the silent token.
Texts == {"hi", "", "NO_REPLY"}

Payloads == [text : Texts]

NoPayload == [text |-> "<null>"]

\* ------------------------------------------------------------------ errors
\* A failure raised by the sender: its errno-style code ("" when it has none)
\* and its message.  TimeoutError is the sentinel the dispatcher creates for
\* its own delivery timeout.
BLOCK_DELIVERY_TRANSIENT_ERRNO_CODES ==
    {"ECONNREFUSED", "EAI_AGAIN", "ENOTFOUND", "EHOSTUNREACH", "ENETUNREACH",
     "UND_ERR_CONNECT_TIMEOUT", "ERR_NETWORK"}

BLOCK_DELIVERY_AMBIGUOUS_ERRNO_CODES ==
    {"ECONNRESET", "ECONNABORTED", "ETIMEDOUT", "EPIPE", "UND_ERR_SOCKET",
     "UND_ERR_BODY_TIMEOUT", "UND_ERR_HEADERS_TIMEOUT", "UND_ERR_ABORTED"}

\* Messages the sender is made to fail with, and what the two message
\* patterns and the permanent-marker test say about each of them.
MsgBadRequest   == "400 bad request: invalid payload"
MsgChatNotFound == "chat not found"
MsgRefused      == "request to api failed"
MsgReset        == "socket hang up"
MsgRateLimit    == "429 rate limit"
MsgTimedOut     == "reply delivery timed out after 5000ms"

MsgConnectRefused == "connect ECONNREFUSED 127.0.0.1:443"
MsgUnavailableNotFound == "503 service unavailable: chat not found"
MsgUnknown      == "unexpected response"

\* The alternatives of the two message patterns that occur in each message
\* (case-insensitive substring search, as RegExp.test does it).
PatternsIn(message) ==
    CASE message = MsgReset         -> {"socket", "hang up"}
      [] message = MsgTimedOut      -> {"timed out", "5\\d\\d"}
      [] message = MsgRateLimit     -> {"429", "rate limit"}
      [] message = MsgConnectRefused -> {"connect"}
      [] message = MsgUnavailableNotFound -> {"5\\d\\d", "unavailable"}
      [] OTHER                      -> {}

BLOCK_DELIVERY_TRANSIENT_ERROR_RE(message) ==
    PatternsIn(message)
      \cap {"429", "408", "5\\d\\d", "rate limit", "retry after", "temporar",
            "unavailable", "fetch failed", "try again"} # {}

BLOCK_DELIVERY_AMBIGUOUS_ERROR_RE(message) ==
    PatternsIn(message)
      \cap {"timeout", "timed out", "network", "socket", "connect", "connection",
            "reset", "closed", "hang up", "premature", "eof"} # {}

isPermanentDeliveryError(message) ==
    message \in {MsgChatNotFound, MsgUnavailableNotFound}

TimeoutError == [code |-> "", message |-> MsgTimedOut, sentinel |-> TRUE]

ErrPermanent  == [code |-> "", message |-> MsgBadRequest, sentinel |-> FALSE]
ErrMarked     == [code |-> "ECONNRESET", message |-> MsgChatNotFound, sentinel |-> FALSE]
ErrRefused    == [code |-> "econnrefused", message |-> MsgRefused, sentinel |-> FALSE]
ErrRateLimit  == [code |-> "", message |-> MsgRateLimit, sentinel |-> FALSE]
ErrReset      == [code |-> "ECONNRESET", message |-> MsgReset, sentinel |-> FALSE]

\* The rejections the sender is made to produce.
SenderErrors == {ErrPermanent, ErrRefused, ErrReset}

NoError == [code |-> "", message |-> "<none>", sentinel |-> FALSE]

toUpperCase(code) ==
    IF code = "econnrefused" THEN "ECONNREFUSED" ELSE code

\* classifyReplyDeliveryError with the errno tables consulted before the
\* permanent marker.
classifyReplyDeliveryError_CodeFirst(err, timeoutOn) ==
    IF timeoutOn /\ err = TimeoutError THEN "transient-ambiguous"
    ELSE IF err.code # "" /\ toUpperCase(err.code) \in BLOCK_DELIVERY_AMBIGUOUS_ERRNO_CODES
         THEN "transient-ambiguous"
    ELSE IF err.code # "" /\ toUpperCase(err.code) \in BLOCK_DELIVERY_TRANSIENT_ERRNO_CODES
         THEN "transient-definitive"
    ELSE IF isPermanentDeliveryError(err.message) THEN "permanent"
    ELSE IF BLOCK_DELIVERY_AMBIGUOUS_ERROR_RE(err.message) THEN "transient-ambiguous"
    ELSE IF BLOCK_DELIVERY_TRANSIENT_ERROR_RE(err.message) THEN "transient-definitive"
    ELSE "permanent"

classifyReplyDeliveryError(err, timeoutOn) ==
    IF timeoutOn /\ err = TimeoutError THEN "transient-ambiguous"
    ELSE IF isPermanentDeliveryError(err.message) THEN "permanent"
    ELSE IF err.code # "" /\ toUpperCase(err.code) \in BLOCK_DELIVERY_AMBIGUOUS_ERRNO_CODES
         THEN "transient-ambiguous"
    ELSE IF err.code # "" /\ toUpperCase(err.code) \in BLOCK_DELIVERY_TRANSIENT_ERRNO_CODES
         THEN "transient-definitive"
    ELSE IF BLOCK_DELIVERY_AMBIGUOUS_ERROR_RE(err.message) THEN "transient-ambiguous"
    ELSE IF BLOCK_DELIVERY_TRANSIENT_ERROR_RE(err.message) THEN "transient-definitive"
    ELSE "permanent"

\* ----------------------------------------------------------- normalisation
\* normalizeReplyPayload: null (with the skip reason it reports through
\* onSkip) for an empty or silent reply, the payload otherwise.
normalizeReplyPayload(payload) ==
    IF payload.text = "" THEN [normalized |-> NoPayload, reason |-> "empty"]
    ELSE IF payload.text = "NO_REPLY" THEN [normalized |-> NoPayload, reason |-> "silent"]
    ELSE [normalized |-> payload, reason |-> "none"]

\* ------------------------------------------------------------------- state
VARIABLES
    env,              \* what the caller and the collaborators do in this run
    options,          \* the ReplyDispatcherOptions the dispatcher was created with
    calls,            \* every enqueue call so far, in call order
    results,          \* per call: the outcome settleResult handed to onResult
    onResultArg,      \* the latest onResult invocation: call, status and error
    pc,               \* per call: where its sendChain link stands
    pending,          \* in-flight deliveries + the reservation
    completeCalled,
    completeTick,     \* markComplete's microtask is queued
    sentFirstBlock,
    queuedCounts,
    registered,       \* still in the dispatcher registry
    idleCount,        \* number of onIdle invocations
    chainRejected,    \* sendChain's last settled link left it rejected
    attempt,          \* retryAsync's attempt number, of the running link
    definitiveRetriesUsed,
    queueId,          \* durable record of the running link (0 = null)
    lastErr,          \* error the running link's latest attempt failed with
    linkRejected,     \* the running link's promise is rejected after its .catch
    senderView,       \* the sender's view: the call it was last invoked for,
                      \* and how many times it has been invoked for that call
    abandoned,        \* calls whose sender invocation lost the race against the
                      \* delivery timeout and has not settled yet
    store,            \* durable delivery store: per call, the record's state
    \* the process and the recovery pass (recoverPendingDeliveries)
    alive,            \* the gateway process is running (FALSE after a crash)
    recoveryQueue,    \* records the running pass has scanned and not yet replayed
    recoveryCur,      \* record the pass is replaying through the sender (call 0 =
                      \* none), and whether the process was alive at the call
    replayOk,         \* the replays the sender accepted, as recoveryCur values

    \* the delivery recovery loop (createDeliveryRecoveryLoop)
    timer,            \* the interval timer exists
    inFlight,         \* the pass promise held in inFlight (0 = null)
    stopped,
    scanning,         \* passes whose recoverPendingDeliveries call is outstanding
    scanCalls,        \* number of recoverPendingDeliveries calls so far
    awaiting,         \* run() and stop() invocations suspended at `await inFlight`
    triggerCount,     \* run() invocations so far, per trigger
    startCalls,       \* start() calls so far
    stopCalls,        \* stop() calls so far
    stopResolved,     \* stop() promises resolved so far
    passErrors,       \* passes that failed: how many recoverPendingDeliveries calls
                      \* rejected, how many log.error calls the loop made, the
                      \* passes whose promise rejected, and the run() and stop()
                      \* calls a rejection reached
    \* the block reply pipeline (createBlockReplyPipeline)
    params,           \* timeoutMs and retry.attempts the pipeline was created with
    seenKeys,
    sentKeys,
    pendingKeys,
    aborted,
    deliveryFailed,
    didStream,
    sends,            \* the links of the pipeline's sendChain, in order
    lastEnqueue,      \* the latest enqueue: its payload and the skip it logged
    flushPc,          \* where the latest flush() stands
    flushTarget,      \* number of links in the sendChain that flush() awaits
    flushCalls,       \* flush() calls so far
    \* the followup queue of one key (enqueueFollowupRun, scheduleFollowupDrain)
    fqConfig,         \* the queue's settings and the dedupe mode of the callers
    fqExists,         \* FOLLOWUP_QUEUES holds a queue for the key
    fqItems,          \* queue.items
    fqDroppedCount,   \* queue.droppedCount
    fqLastRun,        \* queue.lastRun (0 = none)
    fqDraining,       \* queue.draining
    fqPc,             \* where the drain loop stands
    fqLocal,          \* the drain loop's locals across its await: items,
                      \* remainingItems, summaryPrompt
    fqLastCall,       \* the latest runFollowup call: its number and argument
    fqLastEnqueue,    \* the latest enqueueFollowupRun call and what it returned
    fqFailures,       \* runFollowup calls that rejected so far
    fqLoops,          \* drain loops (the async function of scheduleFollowupDrain)
                      \* that have started and not ended
    fqLastSchedule,   \* how the latest scheduleFollowupDrain call went
    \* the gateway lock (forceReleaseGatewayLockAndWait)
    lockFile,         \* the lock file: whether it exists, parses, and its payload
    lockProc,         \* the process the payload's pid names, as the system shows it
    lockOpts,         \* opts of the call (platform)
    lockPc,           \* where the call stands
    lockPayload,      \* what readLockPayload returned to the call
    lockSignals,      \* signals sent with process.kill, in order
    lockResult,       \* how the call ended and what it returned
    \* freeing the gateway port (forceFreePortAndWait and
    \* forceKillOpenclawGatewayProcessesAndWait)
    portFn,           \* which of the two functions was called
    portOpts,         \* timeoutMs, intervalMs, sigtermTimeoutMs after clamping
    portTargets,      \* pids that listen on the port / run as openclaw-gateway
    portKilled,       \* the `killed` list of the call
    portPc,           \* where the call stands
    portTry,          \* the loop counter i
    portWaitedMs,     \* waitedMs
    portSignals,      \* signals sent with process.kill, in order
    portResult,       \* how the call ended and escalatedToSigkill
    \* the pw-ai module cache (getPwAiModule)
    cachedPwAiModule,
    pwAiModuleSoftInflight,   \* a promise is held (FALSE = null)
    pwAiModuleStrictInflight,
    pwLoaderCalls,    \* pwAiModuleLoader invocations so far
    pwCalls,          \* the getPwAiModule calls so far, in call order
    pwLastEvent,      \* the latest thing that happened: a call or a settled load
    \* the Telegram command menu (syncTelegramMenuCommands)
    menuParams,       \* per sync: the bot's api, commandsToRegister, retry.attempts
    menuPc,           \* per sync: where sync() stands
    menuAttempt,      \* per sync: attempt number of the request in progress
    menuApi,          \* bot.api invocations so far, in order
    menuDelete,       \* per sync: how the deleteMyCommands request settled
    menuErrors,  \* per sync: runtime.error calls
    \* the error classifier on its own (classifyReplyDeliveryError)
    clsErr,
    clsTimeoutOn,
    clsOut,
    \* acquiring the gateway lock (acquireGatewayLock), per calling process
    acqFile,
    acqProcs,
    acqOpts,
    acqPc,
    acqPayload,
    acqPolls

durableVars == <<alive, recoveryQueue, recoveryCur, replayOk>>

loopVars == <<timer, inFlight, stopped, scanning, scanCalls, awaiting,
              triggerCount, startCalls, stopCalls, stopResolved, passErrors>>

pipelineVars == <<params, seenKeys, sentKeys, pendingKeys, aborted,
                  deliveryFailed, didStream, sends, lastEnqueue, flushPc,
                  flushTarget, flushCalls>>

followupVars == <<fqConfig, fqExists, fqItems, fqDroppedCount, fqLastRun,
                  fqDraining, fqPc, fqLocal, fqLastCall, fqLastEnqueue,
                  fqFailures,
      fqLoops, fqLastSchedule>>

lockVars == <<lockFile, lockProc, lockOpts, lockPc, lockPayload, lockSignals,
              lockResult>>

portVars == <<portFn, portOpts, portTargets, portKilled, portPc, portTry,
              portWaitedMs, portSignals, portResult>>

pwVars == <<cachedPwAiModule, pwAiModuleSoftInflight, pwAiModuleStrictInflight,
            pwLoaderCalls, pwCalls, pwLastEvent>>

menuVars == <<menuParams, menuPc, menuAttempt, menuApi, menuDelete, menuErrors>>

clsVars == <<clsErr, clsTimeoutOn, clsOut>>

acqVars == <<acqFile, acqProcs, acqOpts, acqPc, acqPayload, acqPolls>>

\* The command-line and channel helpers.
toolVars == <<lockVars, portVars, pwVars, menuVars, clsVars, acqVars>>

\* The components beside the reply path.
laterVars == <<followupVars, toolVars>>

\* Variables of the other components, which the dispatcher never touches.
otherVars == <<durableVars, loopVars, pipelineVars, laterVars>>

\* Variables the crash and the recovery pass leave alone, the dispatcher's
\* and the store aside.
outsideDurable == <<loopVars, pipelineVars, laterVars>>

vars == <<env, options, calls, results, onResultArg, pc, pending, completeCalled,
          completeTick, sentFirstBlock, queuedCounts, registered, idleCount,
          chainRejected, attempt, definitiveRetriesUsed, queueId, lastErr,
          linkRejected, senderView, abandoned, store, otherVars>>

Unsettled == [status |-> "none", reason |-> "none", n |-> 0]

\* settleResult: the first call invokes onResult, later ones return early.
settleResult(r, status, reason) ==
    IF r.status # "none" THEN r
    ELSE [status |-> status, reason |-> reason, n |-> r.n + 1]

\* What onResult last received: updated exactly when settleResult gets past
\* its resultSettled guard.
onResultCall(r, i, status, error) ==
    IF r.status # "none" THEN onResultArg
    ELSE [call |-> i, status |-> status, error |-> error]

resolveRetryConfig(attempts) ==
    IF attempts < 1 THEN 1 ELSE attempts

\* The runs explored: a caller using every kind of reply against a store
\* whose calls succeed and callbacks that return; and a caller streaming
\* block replies against a store whose calls may fail and onError / onIdle
\* callbacks that may throw.  The sender may fail in both.
Environments ==
    { [kinds |-> Kinds,     faults |-> FALSE],
      [kinds |-> {"block"}, faults |-> TRUE] }

\* Whether a store call succeeds.
StoreOutcomes == IF env.faults THEN BOOLEAN ELSE {TRUE}

\* Whether a caller callback throws.
CallbackThrows == IF env.faults THEN BOOLEAN ELSE {FALSE}

\* No pass of recoverPendingDeliveries is running and the process is up.
InitRecovery ==
    /\ alive = TRUE
    /\ recoveryQueue = {}
    /\ recoveryCur = [call |-> 0, alive |-> TRUE]
    /\ replayOk = {}

\* createDeliveryRecoveryLoop: timer = null, inFlight = null, stopped = false.
InitLoop ==
    /\ timer = FALSE
    /\ inFlight = 0
    /\ stopped = FALSE
    /\ scanning = {}
    /\ scanCalls = 0
    /\ awaiting = {}
    /\ triggerCount = [startup |-> 0, interval |-> 0, manual |-> 0]
    /\ startCalls = 0
    /\ stopCalls = 0
    /\ stopResolved = 0
    /\ passErrors = [failed |-> 0, logged |-> 0, rejected |-> {}, propagated |-> 0]

\* The payloads handed to the block reply pipeline: text with and without
\* surrounding blanks, media given as mediaUrl or as mediaUrls ("" and <<>>
\* stand for an absent field).
PipelinePayloads ==
    { [text |-> "a",   mediaUrl |-> "",  mediaUrls |-> <<>>,    replyToId |-> ""],
      [text |-> " a ", mediaUrl |-> "",  mediaUrls |-> <<>>,    replyToId |-> ""],
      [text |-> "a",   mediaUrl |-> "u", mediaUrls |-> <<>>,    replyToId |-> ""],
      [text |-> "a",   mediaUrl |-> "",  mediaUrls |-> <<"u">>, replyToId |-> ""],
      [text |-> "b",   mediaUrl |-> "",  mediaUrls |-> <<>>,    replyToId |-> "m1"] }

TimeoutMsValues == {0, 1000}

\* No enqueue() call yet.
NoBlockPayload == [text |-> "", mediaUrl |-> "", mediaUrls |-> <<>>, replyToId |-> ""]

\* createBlockReplyPipeline: the closure state of a new pipeline (no
\* coalescing, no buffer).
InitPipeline ==
    /\ params \in [timeoutMs : TimeoutMsValues, attempts : 1..MaxAttempts]
    /\ seenKeys = {}
    /\ sentKeys = {}
    /\ pendingKeys = {}
    /\ aborted = FALSE
    /\ deliveryFailed = FALSE
    /\ didStream = FALSE
    /\ sends = <<>>
    /\ lastEnqueue = [n |-> 0, payload |-> NoBlockPayload, skipped |-> "none"]
    /\ flushPc = "none"
    /\ flushTarget = 0
    /\ flushCalls = 0

\* The pipeline left as created, for the specifications about the other
\* components.
InitPipelineIdle ==
    /\ InitPipeline
    /\ params = [timeoutMs |-> 0, attempts |-> 1]

\* The routing of a followup run: originatingChannel, originatingTo,
\* originatingAccountId, originatingThreadId ("" stands for an absent field).
RouteA == [channel |-> "whatsapp", to |-> "+15550001111", accountId |-> "", threadId |-> ""]
RouteB == [channel |-> "whatsapp", to |-> "+15550002222", accountId |-> "", threadId |-> ""]
RouteUnroutable == [channel |-> "webchat", to |-> "+15550001111", accountId |-> "", threadId |-> ""]
RouteNone == [channel |-> "", to |-> "", accountId |-> "", threadId |-> ""]

\* The runs handed to enqueueFollowupRun: a message, its edit, the same
\* message id with blanks around it, runs without message id, a blank
\* prompt, and runs of other routes.
FollowupRuns ==
    [messageId : {"m1", " m1 ", ""}, prompt : {"old text", "edited text"},
     route : {RouteA, RouteB}]
    \cup [messageId : {""}, prompt : {" "}, route : {RouteA}]
    \cup [messageId : {"m1"}, prompt : {"old text"},
          route : {RouteUnroutable, RouteNone}]

\* QueueSettings.cap
QueueCap == 2

\* A queue's settings (cap, dropPolicy) and the dedupeMode its callers use.
FollowupConfigs ==
    [cap : {QueueCap}, dropPolicy : {"summarize", "old", "new"},
     dedupeMode : {"message-id"}]
    \cup [cap : {QueueCap}, dropPolicy : {"summarize"},
          dedupeMode : {"prompt", "none"}]

NoFollowupRun == [messageId |-> "", prompt |-> "", route |-> RouteNone]

\* FOLLOWUP_QUEUES holds no queue for the key.
InitFollowup ==
    /\ fqConfig \in FollowupConfigs
    /\ fqExists = FALSE
    /\ fqItems = <<>>
    /\ fqDroppedCount = 0
    /\ fqLastRun = 0
    /\ fqDraining = FALSE
    /\ fqPc = "idle"
    /\ fqLocal = [items |-> <<>>, remainingItems |-> <<>>, summaryPrompt |-> FALSE]
    /\ fqLastCall = [n |-> 0, prompt |-> <<>>, run |-> 0, route |-> RouteNone]
    /\ fqLastEnqueue = [n |-> 0, run |-> NoFollowupRun, returned |-> FALSE]
    /\ fqFailures = 0
    /\ fqLoops = 0
    /\ fqLastSchedule = "none"

\* The followup queue never used, for the specifications about the other
\* components.
InitFollowupIdle ==
    /\ InitFollowup
    /\ fqConfig = [cap |-> QueueCap, dropPolicy |-> "summarize",
                   dedupeMode |-> "message-id"]

\* process.pid of the caller.
SelfPid == 1

\* The pid the lock file names in the force-release tests.
OwnerPid == 4242

NoLockFile == [exists |-> FALSE, valid |-> FALSE, pid |-> 0, startTime |-> 0]

\* What the lock path can hold: nothing, a file readLockPayload rejects, or a
\* payload with a pid (0, the caller's, another process's) and an optional
\* startTime (0 = absent).
LockFiles ==
    {NoLockFile, [exists |-> TRUE, valid |-> FALSE, pid |-> 0, startTime |-> 0]}
    \cup [exists : {TRUE}, valid : {TRUE}, pid : {0, SelfPid, OwnerPid},
          startTime : {0, 100}]

NoLockProc == [alive |-> FALSE, startTime |-> 0, cmdline |-> "unreadable"]

\* The process with the payload's pid: whether process.kill(pid, 0) finds it,
\* what /proc/<pid>/stat gives as its start time (0 = unreadable) and what
\* /proc/<pid>/cmdline gives.
LockProcs ==
    [alive : BOOLEAN, startTime : {0, 100, 200},
     cmdline : {"unreadable", "gateway", "other"}]

LockOptions == [platform : {"linux", "darwin"}]

NoLockPayload == [isNull |-> TRUE, pid |-> 0, startTime |-> 0]

NoLockResult ==
    [kind |-> "none", removedLock |-> FALSE, ownerPid |-> 0, waitedMs |-> 0,
     escalatedToSigkill |-> FALSE]

InitLockCall ==
    /\ lockPc = "idle"
    /\ lockPayload = NoLockPayload
    /\ lockSignals = <<>>
    /\ lockResult = NoLockResult

InitLock ==
    /\ lockFile \in LockFiles
    /\ lockProc \in LockProcs
    /\ lockOpts \in LockOptions
    /\ lockFile.pid = 0 => lockProc = NoLockProc
    /\ lockFile.pid = SelfPid => lockProc.alive
    /\ InitLockCall

InitLockIdle ==
    /\ lockFile = NoLockFile
    /\ lockProc = NoLockProc
    /\ lockOpts = [platform |-> "linux"]
    /\ InitLockCall

\* The pids of the listeners and gateway processes in the tests.
PortPids == {42, 99}

\* opts of the two force functions, as the tests pass them, plus a SIGTERM
\* budget above the total budget and one of zero.
RawPortOptions ==
    {[timeoutMs |-> 500, intervalMs |-> 100, sigtermTimeoutMs |-> 400],
     [timeoutMs |-> 800, intervalMs |-> 100, sigtermTimeoutMs |-> 300],
     [timeoutMs |-> 500, intervalMs |-> 50, sigtermTimeoutMs |-> 200],
     [timeoutMs |-> 200, intervalMs |-> 100, sigtermTimeoutMs |-> 300],
     [timeoutMs |-> 100, intervalMs |-> 100, sigtermTimeoutMs |-> 0]}

NoPortOptions == [timeoutMs |-> 0, intervalMs |-> 1, sigtermTimeoutMs |-> 0]

NoPortResult == [kind |-> "none", escalatedToSigkill |-> FALSE]

InitPortCall ==
    /\ portFn = "none"
    /\ portOpts = NoPortOptions
    /\ portKilled = {}
    /\ portPc = "idle"
    /\ portTry = 0
    /\ portWaitedMs = 0
    /\ portSignals = <<>>
    /\ portResult = NoPortResult

InitPorts ==
    /\ portTargets \in SUBSET PortPids
    /\ InitPortCall

InitPortsIdle ==
    /\ portTargets = {}
    /\ InitPortCall

\* let cachedPwAiModule = null, and the two inflight promises null
InitPwAi ==
    /\ cachedPwAiModule = "null"
    /\ pwAiModuleSoftInflight = FALSE
    /\ pwAiModuleStrictInflight = FALSE
    /\ pwLoaderCalls = 0
    /\ pwCalls = <<>>
    /\ pwLastEvent = [kind |-> "none", mode |-> "soft", n |-> 0]

Syncs == 1..MaxSyncs

\* The bot and the arguments of the syncs: whether bot.api.deleteMyCommands
\* is a function, commandsToRegister.length, and the attempts the retry
\* runner resolves.
MenuParams ==
    [hasDelete : BOOLEAN, commands : {0, 1}, attempts : 1..MaxMenuAttempts]

InitMenuCall ==
    /\ menuPc = [k \in Syncs |-> "idle"]
    /\ menuAttempt = [k \in Syncs |-> 0]
    /\ menuApi = <<>>
    /\ menuDelete = [k \in Syncs |-> "none"]
    /\ menuErrors = [k \in Syncs |-> 0]

InitMenu ==
    /\ menuParams \in MenuParams
    /\ InitMenuCall

InitMenuIdle ==
    /\ menuParams = [hasDelete |-> TRUE, commands |-> 1, attempts |-> 1]
    /\ InitMenuCall

\* The gateway processes that call acquireGatewayLock.
AcquirerPids == {1001, 1002}

AcqNoFile ==
    [exists |-> FALSE, valid |-> FALSE, pid |-> 0, startTime |-> 0,
     old |-> FALSE, creator |-> 0]

\* What an earlier owner left at the lock path: nothing, or its lock file,
\* older than staleMs or not.
AcquireFiles ==
    {AcqNoFile}
    \cup [exists : {TRUE}, valid : {TRUE}, pid : {OwnerPid}, startTime : {0, 100},
          old : BOOLEAN, creator : {OwnerPid}]

\* The earlier owner holds the lock no more: its pid names no process, or a
\* process of which nothing can be read.
FormerOwnerProcs ==
    {NoLockProc, [alive |-> TRUE, startTime |-> 0, cmdline |-> "unreadable"]}

acquirePcIdle == [p \in AcquirerPids |-> "open"]

InitAcquireCalls ==
    /\ acqPc = acquirePcIdle
    /\ acqPayload = [p \in AcquirerPids |-> [payload |-> NoLockPayload, old |-> FALSE]]
    /\ acqPolls = [p \in AcquirerPids |-> 0]

\* Both processes are about to call acquireGatewayLock.
InitAcquire ==
    /\ acqFile \in AcquireFiles
    /\ acqOpts \in LockOptions
    /\ \E former \in FormerOwnerProcs :
          acqProcs = [pid \in AcquirerPids \cup {OwnerPid} |->
                        IF pid = OwnerPid THEN former
                        ELSE [alive |-> TRUE, startTime |-> 200, cmdline |-> "gateway"]]
    /\ InitAcquireCalls

\* acquireGatewayLock never called.
InitAcquireIdle ==
    /\ acqFile = AcqNoFile
    /\ acqOpts = [platform |-> "linux"]
    /\ acqProcs = [pid \in AcquirerPids \cup {OwnerPid} |-> NoLockProc]
    /\ InitAcquireCalls

\* The classifier, never called.
InitClassifyIdle ==
    /\ clsErr = NoError
    /\ clsTimeoutOn = FALSE
    /\ clsOut = "none"

\* The command-line and channel helpers, never used.
InitToolsIdle ==
    /\ InitLockIdle
    /\ InitPortsIdle
    /\ InitPwAi
    /\ InitMenuIdle
    /\ InitClassifyIdle
    /\ InitAcquireIdle

\* The components beside the reply path, never used.
InitLater ==
    /\ InitFollowupIdle
    /\ InitToolsIdle

InitOthers ==
    /\ InitRecovery
    /\ InitLoop
    /\ InitPipelineIdle
    /\ InitLater

\* The options a dispatcher is created with.
DispatcherOptions ==
    [attempts : 1..MaxAttempts,
     durableRoute : BOOLEAN,
     deliveryTimeoutMs : {DEFAULT_REPLY_DELIVERY_TIMEOUT_MS,
                          DeliveryTimeoutOverrideMs},
     humanDelay : {"off", "natural"}]

\* createReplyDispatcher: the closure state of a new dispatcher.
InitDispatcher ==
    /\ calls = <<>>
    /\ results = <<>>
    /\ onResultArg = [call |-> 0, status |-> "none", error |-> NoError]
    /\ pc = <<>>
    /\ pending = 1
    /\ completeCalled = FALSE
    /\ completeTick = FALSE
    /\ sentFirstBlock = FALSE
    /\ queuedCounts = [k \in Kinds |-> 0]
    /\ registered = TRUE
    /\ idleCount = 0
    /\ chainRejected = FALSE
    /\ abandoned = {}
    /\ attempt = 0
    /\ definitiveRetriesUsed = 0
    /\ queueId = 0
    /\ lastErr = NoError
    /\ linkRejected = FALSE
    /\ senderView = [call |-> 0, n |-> 0]
    /\ store = <<>>

Init ==
    /\ InitOthers
    /\ env \in Environments
    /\ options \in DispatcherOptions
    /\ InitDispatcher

\* ------------------------------------------------------------ the enqueue
\* Identity of a normalised payload: its text (the payloads here carry no
\* media and no reply-to id).
PayloadKey(normalized) ==
    normalized.text

\* EnqueueAccepted with the identity-key test the block reply pipeline has:
\* refuse a payload whose key an earlier accepted, not failed, call carries.
EnqueueAccepted_Dedup(normalized, payload) ==
    /\ normalized # NoPayload
    /\ ~\E i \in 1..Len(calls) :
          /\ calls[i].accepted
          /\ calls[i].key = PayloadKey(payload)
          /\ results[i].status \in {"none", "sent"}

\* enqueue accepts a payload exactly when normalisation returned one.
EnqueueAccepted(normalized, payload) ==
    normalized # NoPayload

\* CountsPayload with the counters raised before the early return.
CountsPayload_BeforeSkip(accepted) ==
    TRUE

\* queuedCounts[kind] += 1 and pending += 1 sit after the `return false` of a
\* skipped payload: only an accepted payload is counted.
CountsPayload(accepted) ==
    accepted

\* enqueue(kind, payload, onResult), and enqueueAsync around it: normalise,
\* settle a skip at once, otherwise count the payload and append its link.
Enqueue(kind, payload, isAsync) ==
    /\ alive
    /\ Len(calls) < MaxEnqueues
    /\ kind \in env.kinds
    /\ LET n        == normalizeReplyPayload(payload)
           accepted == EnqueueAccepted(n.normalized, payload)
           i        == Len(calls) + 1
           r0       == IF n.reason # "none"
                       THEN settleResult(Unsettled, "skipped", n.reason)
                       ELSE Unsettled
           r1       == IF ~accepted
                       THEN settleResult(r0, "skipped", "empty")
                       ELSE r0
           \* enqueueAsync's microtask: resolveOnce when enqueue refused and
           \* nothing resolved the promise yet.
           r2       == IF isAsync /\ ~accepted
                       THEN settleResult(r1, "skipped", "empty")
                       ELSE r1
       IN  /\ calls' = Append(calls, [accepted |-> accepted,
                                      kind |-> kind,
                                      shouldDelay |-> accepted /\ kind = "block"
                                                      /\ sentFirstBlock,
                                      key |-> PayloadKey(payload)])
           /\ results' = Append(results, r2)
           /\ onResultArg' = IF r2.status # "none"
                             THEN [call |-> i, status |-> r2.status, error |-> NoError]
                             ELSE onResultArg
           /\ store' = Append(store, "none")
           /\ pc' = Append(pc, IF accepted THEN "queued" ELSE "none")
           /\ IF CountsPayload(accepted)
              THEN /\ queuedCounts' = [queuedCounts EXCEPT ![kind] = @ + 1]
                   /\ pending' = pending + 1
              ELSE UNCHANGED <<queuedCounts, pending>>
           /\ sentFirstBlock' = (sentFirstBlock \/ (accepted /\ kind = "block"))
    /\ UNCHANGED <<otherVars, env, options, completeCalled, completeTick, registered, idleCount,
                   chainRejected, attempt, definitiveRetriesUsed, queueId,
                   lastErr, linkRejected, senderView, abandoned>>

\* ---------------------------------------------------------- markComplete
\* markComplete(): a second call returns early; the first sets the flag and
\* queues the microtask that clears the reservation.
MarkComplete ==
    /\ alive
    /\ ~completeCalled
    /\ completeCalled' = TRUE
    /\ completeTick' = TRUE
    /\ UNCHANGED <<otherVars, env, options, calls, results, onResultArg, pc, pending,
                   sentFirstBlock, queuedCounts, registered, idleCount,
                   chainRejected, attempt, definitiveRetriesUsed, queueId,
                   lastErr, linkRejected, senderView, abandoned, store>>

\* ReservationOnly without the pending === 1 test.
ReservationOnly_NoCount(p, complete) ==
    complete

\* The microtask's test: still just the reservation.
ReservationOnly(p, complete) ==
    p = 1 /\ complete

\* The microtask queued by markComplete.
CompleteMicrotask ==
    /\ alive
    /\ completeTick
    /\ completeTick' = FALSE
    /\ IF ReservationOnly(pending, completeCalled)
       THEN /\ pending' = pending - 1
            /\ IF pending - 1 = 0
               THEN registered' = FALSE /\ idleCount' = idleCount + 1
               ELSE UNCHANGED <<registered, idleCount>>
       ELSE UNCHANGED <<pending, registered, idleCount>>
    /\ UNCHANGED <<otherVars, env, options, calls, results, onResultArg, pc, completeCalled,
                   sentFirstBlock, queuedCounts, chainRejected, attempt,
                   definitiveRetriesUsed, queueId, lastErr, linkRejected,
                   senderView, abandoned, store>>

\* ------------------------------------------------------- the sendChain link
Links == 1..Len(calls)

\* ChainReady with the link chained on nothing: it starts as soon as the
\* links before it have started.
ChainReady_NoWait(i) ==
    \A j \in 1..(i - 1) : pc[j] # "queued"

\* A link's .then callback is reached once every earlier link has run through
\* its .finally: sendChain = sendChain.then(..).catch(..).finally(..).
ChainReady(i) ==
    \A j \in 1..(i - 1) : pc[j] \in {"none", "done"}

\* Error a throwing caller callback (onError, onIdle) raises.
CallbackError == [code |-> "", message |-> "callback threw", sentinel |-> FALSE]

TimeoutOn == options.deliveryTimeoutMs > 0

\* getHumanDelay: the delays the configured mode can produce.
getHumanDelay(mode) ==
    IF mode = "off" THEN {0}
    ELSE {DEFAULT_HUMAN_DELAY_MIN_MS, DEFAULT_HUMAN_DELAY_MAX_MS}

\* attempts handed to retryAsync ({...blockRetryConfig, attempts: ...}).
RetryAttempts(opts) ==
    resolveRetryConfig(opts.attempts)

\* maxDefinitiveRetries = Math.max(0, attempts - 1)
maxDefinitiveRetries(opts) ==
    IF resolveRetryConfig(opts.attempts) - 1 < 0 THEN 0
    ELSE resolveRetryConfig(opts.attempts) - 1

\* shouldRetry without the permanent test.
shouldRetry_PermanentRetried(err, used) ==
    LET classification == classifyReplyDeliveryError(err, TimeoutOn)
    IN  /\ classification # "transient-ambiguous"
        /\ ~(used >= maxDefinitiveRetries(options))

\* shouldRetry(err): the retry predicate handed to retryAsync.
shouldRetry(err, used) ==
    LET classification == classifyReplyDeliveryError(err, TimeoutOn)
    IN  /\ classification # "permanent"
        /\ classification # "transient-ambiguous"
        /\ ~(used >= maxDefinitiveRetries(options))

\* retryAsync gives up after a failed attempt: attempts exhausted, or the
\* predicate says no.
retryAsyncGivesUp(att, maxAttempts, retry) ==
    att >= maxAttempts \/ ~retry

\* FailureStoreOp without the transient-ambiguous branch.
FailureStoreOp_AlwaysFail(classification) ==
    "failDelivery"

\* The store update of the failure branch.
FailureStoreOp(classification) ==
    IF classification = "transient-ambiguous" THEN "markDeliveryUncertain"
    ELSE "failDelivery"

\* The fields of the second argument of options.deliver: { kind }.
DeliverOptions == {"kind"}

\* The fields of the second argument of onBlockReply:
\* { abortSignal: abortController.signal, timeoutMs }.
OnBlockReplyOptions == {"abortSignal", "timeoutMs"}

\* options.deliver(normalized, {kind}) is invoked for link i.
CallDeliver(i, att) ==
    /\ pc' = [pc EXCEPT ![i] = "deliver"]
    /\ senderView' = IF senderView.call = i
                     THEN [senderView EXCEPT !.n = @ + 1]
                     ELSE [call |-> i, n |-> 1]
    /\ attempt' = att
    /\ UNCHANGED abandoned

\* The `if (queueId)` guards taken as "a durable route is configured".
HasRecord_Always == options.durableRoute

\* if (queueId): the running link has a durable record.
HasRecord == queueId # 0

\* What follows markDeliveryDelivered, with its rejection not caught.
AfterMarkDelivered_Rethrow(ok) ==
    IF ok THEN "ack" ELSE "failDelivery"

\* await markDeliveryDelivered(..).catch(..): ackDelivery follows whether the
\* call succeeded or not.
AfterMarkDelivered(ok) ==
    "ack"

\* AfterDelay going to the sender without persisting a record first.
AfterDelay_NoRecord(i) ==
    CallDeliver(i, 1)

\* After the human delay: persist the durable record, or go on to the sender.
AfterDelay(i) ==
    IF options.durableRoute
    THEN /\ pc' = [pc EXCEPT ![i] = "enqueueDelivery"]
         /\ UNCHANGED <<senderView, abandoned, attempt>>
    ELSE CallDeliver(i, 1)

\* The link's .then callback starts (or is skipped, when sendChain is
\* rejected, and the rejection lands in the link's .catch).
LinkStart(i) ==
    /\ alive
    /\ i \in Links
    /\ pc[i] = "queued"
    /\ ChainReady(i)
    /\ definitiveRetriesUsed' = 0
    /\ queueId' = 0
    /\ linkRejected' = FALSE
    /\ IF chainRejected
       THEN /\ pc' = [pc EXCEPT ![i] = "catch"]
            /\ lastErr' = CallbackError
            /\ UNCHANGED <<senderView, abandoned, attempt>>
       ELSE /\ lastErr' = NoError
            /\ \E delayMs \in getHumanDelay(options.humanDelay) :
                 IF calls[i].shouldDelay /\ delayMs > 0
                 THEN /\ pc' = [pc EXCEPT ![i] = "sleep"]
                      /\ UNCHANGED <<senderView, abandoned, attempt>>
                 ELSE AfterDelay(i)
    /\ UNCHANGED <<otherVars, env, options, calls, results, onResultArg, pending,
                   completeCalled, completeTick, sentFirstBlock, queuedCounts,
                   registered, idleCount, chainRejected, store>>

\* The human-delay timer fires.
SleepDone(i) ==
    /\ alive
    /\ i \in Links
    /\ pc[i] = "sleep"
    /\ ~completeTick
    /\ AfterDelay(i)
    /\ UNCHANGED <<otherVars, env, options, calls, results, onResultArg, pending,
                   completeCalled, completeTick, sentFirstBlock, queuedCounts,
                   registered, idleCount, chainRejected,
                   definitiveRetriesUsed, queueId, lastErr, linkRejected,
                   store>>

\* enqueueDelivery settles: a queue id, or null when persisting failed.
EnqueueDeliverySettle(i, ok) ==
    /\ alive
    /\ i \in Links
    /\ pc[i] = "enqueueDelivery"
    /\ ~completeTick
    /\ queueId' = IF ok THEN i ELSE 0
    /\ store' = IF ok THEN [store EXCEPT ![i] = "enqueued"] ELSE store
    /\ CallDeliver(i, 1)
    /\ UNCHANGED <<otherVars, env, options, calls, results, onResultArg, pending,
                   completeCalled, completeTick, sentFirstBlock, queuedCounts,
                   registered, idleCount, chainRejected,
                   definitiveRetriesUsed, lastErr, linkRejected>>

\* The sender call of the running attempt resolves: retryAsync returns, the
\* durable record is marked delivered (then acked), or the result is settled.
DeliverOk(i) ==
    /\ alive
    /\ i \in Links
    /\ pc[i] = "deliver"
    /\ ~completeTick
    /\ IF HasRecord
       THEN /\ pc' = [pc EXCEPT ![i] = "markDelivered"]
            /\ UNCHANGED <<results, onResultArg>>
       ELSE /\ pc' = [pc EXCEPT ![i] = "finally"]
            /\ results' = [results EXCEPT ![i] = settleResult(@, "sent", "none")]
            /\ onResultArg' = onResultCall(results[i], i, "sent", NoError)
    \* retryAsync returned: no error is left to rethrow
    /\ lastErr' = NoError
    /\ UNCHANGED <<otherVars, env, options, calls, pending, completeCalled, completeTick,
                   sentFirstBlock, queuedCounts, registered, idleCount,
                   chainRejected, attempt, definitiveRetriesUsed, queueId,
                   linkRejected, senderView, abandoned, store>>

\* SettledError wrapping the error in a new one.
SettledError_Wrapped(err) ==
    [err EXCEPT !.message = "reply delivery failed"]

\* The error the catch branch hands to settleResult.
SettledError(err) ==
    err

\* An attempt fails with err (the sender rejected or threw, or the delivery
\* timeout won the race): retryAsync backs off and retries, or rethrows into
\* the link's catch branch, which classifies the error and updates the record.
AttemptFailed(i, err) ==
    /\ lastErr' = err
    /\ IF retryAsyncGivesUp(attempt, RetryAttempts(options),
                            shouldRetry(err, definitiveRetriesUsed))
       THEN /\ UNCHANGED definitiveRetriesUsed
            /\ IF HasRecord
               THEN /\ pc' = [pc EXCEPT ![i] =
                          FailureStoreOp(classifyReplyDeliveryError(err, TimeoutOn))]
                    /\ UNCHANGED <<results, onResultArg>>
               ELSE /\ pc' = [pc EXCEPT ![i] = "catch"]
                    /\ results' = [results EXCEPT
                          ![i] = settleResult(@, "failed", "none")]
                    /\ onResultArg' = onResultCall(results[i], i, "failed",
                                                   SettledError(err))
       ELSE /\ definitiveRetriesUsed' = definitiveRetriesUsed + 1
            /\ pc' = [pc EXCEPT ![i] = "backoff"]
            /\ UNCHANGED <<results, onResultArg>>
    /\ UNCHANGED <<otherVars, env, options, calls, pending, completeCalled, completeTick,
                   sentFirstBlock, queuedCounts, registered, idleCount,
                   chainRejected, attempt, queueId, linkRejected, senderView,
                   store>>

\* The sender rejects (or throws synchronously) with err.
DeliverReject(i, err) ==
    /\ alive
    /\ i \in Links
    /\ pc[i] = "deliver"
    /\ ~completeTick
    /\ AttemptFailed(i, err)
    /\ UNCHANGED abandoned

\* withReplyDeliveryTimeout: the timer wins the race and rejects with the
\* sentinel; only armed when deliveryTimeoutMs > 0.
DeliverTimeout(i) ==
    /\ alive
    /\ i \in Links
    /\ pc[i] = "deliver"
    /\ ~completeTick
    /\ TimeoutOn
    /\ AttemptFailed(i, TimeoutError)
    \* Promise.race settled; the sender's promise is left as it is
    /\ abandoned' = abandoned \cup {i}

\* A sender invocation that lost the race settles; nothing waits for it.
SenderSettlesLate(i) ==
    /\ alive
    /\ i \in abandoned
    /\ abandoned' = abandoned \ {i}
    /\ UNCHANGED <<otherVars, env, options, calls, results, onResultArg, pc,
                   pending, completeCalled, completeTick, sentFirstBlock,
                   queuedCounts, registered, idleCount, chainRejected, attempt,
                   definitiveRetriesUsed, queueId, lastErr, linkRejected,
                   senderView, store>>

\* retryAsync's backoff sleep ends and the next attempt calls the sender.
BackoffDone(i) ==
    /\ alive
    /\ i \in Links
    /\ pc[i] = "backoff"
    /\ ~completeTick
    /\ CallDeliver(i, attempt + 1)
    /\ UNCHANGED <<otherVars, env, options, calls, results, onResultArg, pending,
                   completeCalled, completeTick, sentFirstBlock, queuedCounts,
                   registered, idleCount, chainRejected,
                   definitiveRetriesUsed, queueId, lastErr, linkRejected,
                   store>>

\* markDeliveryDelivered settles (a failure is logged and swallowed), then
\* ackDelivery is called.
MarkDeliveredSettle(i, ok) ==
    /\ alive
    /\ i \in Links
    /\ pc[i] = "markDelivered"
    /\ ~completeTick
    /\ store' = IF ok THEN [store EXCEPT ![queueId] = "delivered"] ELSE store
    /\ pc' = [pc EXCEPT ![i] = AfterMarkDelivered(ok)]
    /\ UNCHANGED <<otherVars, env, options, calls, results, onResultArg, pending,
                   completeCalled, completeTick, sentFirstBlock, queuedCounts,
                   registered, idleCount, chainRejected, attempt,
                   definitiveRetriesUsed, queueId, lastErr, linkRejected,
                   senderView, abandoned>>

\* ackDelivery settles; the result is settled as sent.
AckSettle(i, ok) ==
    /\ alive
    /\ i \in Links
    /\ pc[i] = "ack"
    /\ ~completeTick
    /\ store' = IF ok THEN [store EXCEPT ![queueId] = "acked"] ELSE store
    /\ results' = [results EXCEPT ![i] = settleResult(@, "sent", "none")]
    /\ onResultArg' = onResultCall(results[i], i, "sent", NoError)
    /\ pc' = [pc EXCEPT ![i] = "finally"]
    /\ UNCHANGED <<otherVars, env, options, calls, pending, completeCalled, completeTick,
                   sentFirstBlock, queuedCounts, registered, idleCount,
                   chainRejected, attempt, definitiveRetriesUsed, queueId,
                   lastErr, linkRejected, senderView, abandoned>>

\* What a store update of the failure branch leaves in the record.
RecordStateAfter(op) ==
    IF op = "markDeliveryUncertain" THEN "uncertain" ELSE "failed"

\* markDeliveryUncertain / failDelivery settles; the result is settled as
\* failed and the error is rethrown into the chain's .catch.
FailureUpdateSettle(i, ok) ==
    /\ alive
    /\ i \in Links
    /\ pc[i] \in {"markDeliveryUncertain", "failDelivery"}
    /\ ~completeTick
    /\ store' = IF ok
                THEN [store EXCEPT ![queueId] = RecordStateAfter(pc[i])]
                ELSE store
    /\ results' = [results EXCEPT ![i] = settleResult(@, "failed", "none")]
    /\ onResultArg' = onResultCall(results[i], i, "failed", SettledError(lastErr))
    /\ pc' = [pc EXCEPT ![i] = "catch"]
    /\ UNCHANGED <<otherVars, env, options, calls, pending, completeCalled, completeTick,
                   sentFirstBlock, queuedCounts, registered, idleCount,
                   chainRejected, attempt, definitiveRetriesUsed, queueId,
                   lastErr, linkRejected, senderView, abandoned>>

\* The chain's .catch: log, call options.onError; the link's promise is
\* fulfilled again unless onError itself throws.
Catch(i, onErrorThrows) ==
    /\ alive
    /\ i \in Links
    /\ pc[i] = "catch"
    /\ linkRejected' = onErrorThrows
    /\ pc' = [pc EXCEPT ![i] = "finally"]
    /\ UNCHANGED <<otherVars, env, options, calls, results, onResultArg, pending,
                   completeCalled, completeTick, sentFirstBlock, queuedCounts,
                   registered, idleCount, chainRejected, attempt,
                   definitiveRetriesUsed, queueId, lastErr, senderView, abandoned, store>>

\* pending after the .finally's decrement and reservation clearing.
PendingAfterFinally(p, complete) ==
    IF p - 1 = 1 /\ complete THEN p - 2 ELSE p - 1

\* The chain's .finally: decrement pending, clear the reservation, signal
\* idle.  sendChain is left rejected when the .catch rethrew or onIdle throws.
Finally(i, onIdleThrows) ==
    /\ alive
    /\ i \in Links
    /\ pc[i] = "finally"
    /\ pending' = PendingAfterFinally(pending, completeCalled)
    /\ IF pending' = 0
       THEN /\ registered' = FALSE
            /\ idleCount' = idleCount + 1
            /\ chainRejected' = (linkRejected \/ onIdleThrows)
       ELSE /\ ~onIdleThrows
            /\ chainRejected' = linkRejected
            /\ UNCHANGED <<registered, idleCount>>
    /\ pc' = [pc EXCEPT ![i] = "done"]
    \* the link's locals go out of scope
    /\ attempt' = 0
    /\ definitiveRetriesUsed' = 0
    /\ queueId' = 0
    /\ lastErr' = NoError
    /\ linkRejected' = FALSE
    /\ UNCHANGED <<otherVars, env, options, calls, results, onResultArg, completeCalled,
                   completeTick, sentFirstBlock, queuedCounts, senderView, abandoned,
                   store>>

\* ------------------------------------------------------------ specification
Next ==
    \/ \E kind \in Kinds, payload \in Payloads, isAsync \in BOOLEAN :
          Enqueue(kind, payload, isAsync)
    \/ MarkComplete
    \/ CompleteMicrotask
    \/ \E i \in Links : LinkStart(i)
    \/ \E i \in Links : SleepDone(i)
    \/ \E i \in Links, ok \in StoreOutcomes : EnqueueDeliverySettle(i, ok)
    \/ \E i \in Links : DeliverOk(i)
    \/ \E i \in Links, err \in SenderErrors : DeliverReject(i, err)
    \/ \E i \in Links : DeliverTimeout(i)
    \/ \E i \in Links : SenderSettlesLate(i)
    \/ \E i \in Links : BackoffDone(i)
    \/ \E i \in Links, ok \in StoreOutcomes : MarkDeliveredSettle(i, ok)
    \/ \E i \in Links, ok \in StoreOutcomes : AckSettle(i, ok)
    \/ \E i \in Links, ok \in StoreOutcomes : FailureUpdateSettle(i, ok)
    \/ \E i \in Links, t \in CallbackThrows : Catch(i, t)
    \/ \E i \in Links, t \in CallbackThrows : Finally(i, t)

Spec == Init /\ [][Next]_vars

TypeOK ==
    /\ pending \in Int
    /\ Len(calls) <= MaxEnqueues
    /\ Len(pc) = Len(calls)

\* ------------------------------------------------- crash and recovery pass
\* Record states a recovery pass picks up: everything not acked or failed.
NonTerminalRecordStates == {"enqueued", "delivered", "uncertain"}

\* The gateway process dies: nothing of the dispatcher or of a running
\* recovery pass runs any more; the durable store keeps its records.  pc and
\* results keep what had happened up to the crash.
Crash ==
    /\ alive
    /\ alive' = FALSE
    /\ recoveryQueue' = {}
    /\ recoveryCur' = [call |-> 0, alive |-> TRUE]
    /\ UNCHANGED <<env, options, calls, results, onResultArg, pc, pending,
                   completeCalled, completeTick, sentFirstBlock, queuedCounts,
                   registered, idleCount, chainRejected, attempt,
                   definitiveRetriesUsed, queueId, lastErr, linkRejected,
                   senderView, abandoned, store, replayOk, outsideDurable>>

DispatcherUnchanged ==
    UNCHANGED <<outsideDurable, env, options, calls, results, onResultArg, pc, pending,
                completeCalled, completeTick, sentFirstBlock, queuedCounts,
                registered, idleCount, chainRejected, attempt,
                definitiveRetriesUsed, queueId, lastErr, linkRejected,
                senderView, abandoned>>

\* recoverPendingDeliveries starts (in the running process, or in the one
\* started after a crash): it scans the store for the non-terminal records.
RecoverScan ==
    /\ recoveryQueue = {}
    /\ recoveryCur.call = 0
    /\ recoveryQueue' = {i \in 1..Len(store) : store[i] \in NonTerminalRecordStates}
    /\ recoveryQueue' # {}
    /\ DispatcherUnchanged
    /\ UNCHANGED <<store, alive, recoveryCur, replayOk>>

\* The pass replays a scanned record through the sender.
RecoverReplay(i) ==
    /\ i \in recoveryQueue
    /\ recoveryCur.call = 0
    /\ recoveryQueue' = recoveryQueue \ {i}
    /\ recoveryCur' = [call |-> i, alive |-> alive]
    /\ DispatcherUnchanged
    /\ UNCHANGED <<store, alive, replayOk>>

\* The replay's sender call resolves: the record is acked.
RecoverDeliverOk ==
    /\ recoveryCur.call # 0
    /\ store' = [store EXCEPT ![recoveryCur.call] = "acked"]
    /\ replayOk' = replayOk \cup {recoveryCur}
    /\ recoveryCur' = [call |-> 0, alive |-> TRUE]
    /\ DispatcherUnchanged
    /\ UNCHANGED <<alive, recoveryQueue>>

\* The replay's sender call rejects: the record is updated as the
\* dispatcher's failure branch updates it.
RecoverDeliverReject(err) ==
    /\ recoveryCur.call # 0
    /\ store' = [store EXCEPT ![recoveryCur.call] =
                    RecordStateAfter(FailureStoreOp(
                        classifyReplyDeliveryError(err, FALSE)))]
    /\ recoveryCur' = [call |-> 0, alive |-> TRUE]
    /\ DispatcherUnchanged
    /\ UNCHANGED <<alive, recoveryQueue, replayOk>>

\* A dispatcher with a durable route streaming block replies, collaborators
\* that do not fail.
InitDurable ==
    /\ InitOthers
    /\ env = [kinds |-> {"block"}, faults |-> FALSE]
    /\ options \in {o \in DispatcherOptions : o.durableRoute}
    /\ InitDispatcher

NextDurable ==
    \/ Next
    \/ Crash
    \/ RecoverScan
    \/ \E i \in Links : RecoverReplay(i)
    \/ RecoverDeliverOk
    \/ \E err \in SenderErrors : RecoverDeliverReject(err)

SpecDurable == InitDurable /\ [][NextDurable]_vars

\* --------------------------------------------------- delivery recovery loop
Triggers == {"startup", "interval", "manual"}

\* Everything outside the recovery loop.
outsideLoop ==
    <<env, options, calls, results, onResultArg, pc, pending, completeCalled,
      completeTick, sentFirstBlock, queuedCounts, registered, idleCount,
      chainRejected, attempt, definitiveRetriesUsed, queueId, lastErr,
      linkRejected, senderView, abandoned, store, durableVars, pipelineVars, laterVars>>

RunInvocations ==
    triggerCount.startup + triggerCount.interval + triggerCount.manual

\* An invocation suspended at `await inFlight` can go on: the promise it
\* awaits is settled (or it awaited null).
Resumable(w) ==
    w.on = 0 \/ w.on \notin scanning

\* Promise continuations run before the next timer or I/O callback.
MicrotasksDrained ==
    \A w \in awaiting : ~Resumable(w)

\* run's first guard without the test.
RunStopped_Ignored == FALSE

\* run: if (stopped) return
RunStopped == stopped

\* run's second guard without the test.
PassInFlight_Ignored == FALSE

\* run: if (inFlight) { log; await inFlight; return }
PassInFlight == inFlight # 0

\* run(trigger), up to its first suspension: return when stopped, join the
\* pass in flight, or start a pass (the call of recoverPendingDeliveries)
\* and await it.
run(trigger) ==
    /\ RunInvocations < MaxTriggers
    /\ triggerCount' = [triggerCount EXCEPT ![trigger] = @ + 1]
    /\ IF RunStopped
       THEN UNCHANGED <<inFlight, scanning, scanCalls, awaiting>>
       ELSE IF PassInFlight
       THEN /\ awaiting' = awaiting \cup
                   {[kind |-> "run", trigger |-> trigger, on |-> inFlight,
                     n |-> RunInvocations + 1]}
            /\ UNCHANGED <<inFlight, scanning, scanCalls>>
       ELSE /\ scanCalls' = scanCalls + 1
            /\ scanning' = scanning \cup {scanCalls + 1}
            /\ inFlight' = scanCalls + 1
            /\ awaiting' = awaiting \cup
                   {[kind |-> "run", trigger |-> trigger, on |-> scanCalls + 1,
                     n |-> RunInvocations + 1]}

\* start's guard without the timer test.
StartRefused_TimerIgnored == stopped

\* start: if (timer || stopped) return
StartRefused == timer \/ stopped

\* start()
Start ==
    /\ startCalls < MaxCalls
    /\ startCalls' = startCalls + 1
    /\ IF StartRefused
       THEN UNCHANGED <<timer, inFlight, scanning, scanCalls, awaiting, triggerCount>>
       ELSE /\ run("startup")
            /\ timer' = TRUE
    /\ UNCHANGED <<stopped, stopCalls, stopResolved, passErrors, outsideLoop>>

\* The interval timer fires: void run("interval").
Tick ==
    /\ timer
    /\ MicrotasksDrained
    /\ run("interval")
    /\ UNCHANGED <<timer, stopped, startCalls, stopCalls, stopResolved, passErrors, outsideLoop>>

\* runNow()
RunNow ==
    /\ run("manual")
    /\ UNCHANGED <<timer, stopped, startCalls, stopCalls, stopResolved, passErrors, outsideLoop>>

\* stop(): set stopped, clear the timer, await inFlight.
Stop ==
    /\ stopCalls < MaxCalls
    /\ stopCalls' = stopCalls + 1
    /\ stopped' = TRUE
    /\ timer' = FALSE
    /\ awaiting' = awaiting \cup
           {[kind |-> "stop", trigger |-> "none", on |-> inFlight, n |-> stopCalls + 1]}
    /\ UNCHANGED <<inFlight, scanning, scanCalls, triggerCount, startCalls,
                   stopResolved, passErrors, outsideLoop>>

\* The pass without its catch block.
PassErrorCaught_Not == FALSE

\* try { await recoverPendingDeliveries(...) } catch (err) { log.error(...) }
PassErrorCaught == TRUE

\* recoverPendingDeliveries settles; a rejection is caught and logged, the
\* pass's finally clears inFlight and the pass promise resolves.
PassSettle(id, ok) ==
    /\ id \in scanning
    /\ scanning' = scanning \ {id}
    /\ inFlight' = 0
    /\ passErrors' =
          IF ok THEN passErrors
          ELSE IF PassErrorCaught
          THEN [passErrors EXCEPT !.failed = @ + 1, !.logged = @ + 1]
          ELSE [passErrors EXCEPT !.failed = @ + 1, !.rejected = @ \cup {id}]
    /\ UNCHANGED <<timer, stopped, scanCalls, awaiting, triggerCount, startCalls,
                   stopCalls, stopResolved, outsideLoop>>

\* A suspended run() or stop() resumes after its await and returns, or
\* throws what the promise it awaited was rejected with.
AwaitResume(w) ==
    /\ w \in awaiting
    /\ Resumable(w)
    /\ awaiting' = awaiting \ {w}
    /\ stopResolved' = IF w.kind = "stop" /\ w.on \notin passErrors.rejected
                       THEN stopResolved + 1 ELSE stopResolved
    /\ passErrors' = IF w.on \in passErrors.rejected
                     THEN [passErrors EXCEPT !.propagated = @ + 1]
                     ELSE passErrors
    /\ UNCHANGED <<timer, inFlight, stopped, scanning, scanCalls, triggerCount,
                   startCalls, stopCalls, outsideLoop>>

\* isRunning()
isRunning == inFlight # 0

InitLoopSpec ==
    /\ InitOthers
    /\ env = [kinds |-> {"block"}, faults |-> FALSE]
    /\ options = [attempts |-> 1, durableRoute |-> TRUE,
                  deliveryTimeoutMs |-> DEFAULT_REPLY_DELIVERY_TIMEOUT_MS,
                  humanDelay |-> "off"]
    /\ InitDispatcher

NextLoop ==
    \/ Start
    \/ Tick
    \/ RunNow
    \/ Stop
    \/ \E id \in scanning, ok \in BOOLEAN : PassSettle(id, ok)
    \/ \E w \in awaiting : AwaitResume(w)

SpecLoop == InitLoopSpec /\ [][NextLoop]_vars

\* ----------------------------------------------------- block reply pipeline
\* Everything outside the block reply pipeline.
outsidePipeline ==
    <<env, options, calls, results, onResultArg, pc, pending, completeCalled,
      completeTick, sentFirstBlock, queuedCounts, registered, idleCount,
      chainRejected, attempt, definitiveRetriesUsed, queueId, lastErr,
      linkRejected, senderView, abandoned, store, durableVars, loopVars, laterVars>>

\* String.prototype.trim on the texts used here.
trim(text) ==
    IF text = " a " THEN "a"
    ELSE IF text = " m1 " THEN "m1"
    ELSE IF text = " " THEN ""
    ELSE text

\* createBlockReplyPayloadKey: the JSON of {text, mediaList, replyToId}.
createBlockReplyPayloadKey(payload) ==
    [text      |-> trim(payload.text),
     mediaList |-> IF Len(payload.mediaUrls) > 0 THEN payload.mediaUrls
                   ELSE IF payload.mediaUrl # "" THEN <<payload.mediaUrl>>
                   ELSE <<>>,
     replyToId |-> IF payload.replyToId = "" THEN "null" ELSE payload.replyToId]

BLOCK_REPLY_TRANSIENT_ERRNO_CODES ==
    {"ECONNRESET", "ECONNABORTED", "ECONNREFUSED", "ETIMEDOUT", "EAI_AGAIN",
     "ENOTFOUND", "EHOSTUNREACH", "ENETUNREACH", "EPIPE"}

MsgBlockTimedOut == "block reply delivery timed out after 1000ms"

\* BLOCK_REPLY_TRANSIENT_ERROR_RE.test(message), on the messages used here.
BLOCK_REPLY_TRANSIENT_ERROR_RE(message) ==
    message \in {MsgReset, MsgRateLimit, MsgTimedOut, MsgBlockTimedOut}

\* shouldRetryBlockReplyError
shouldRetryBlockReplyError(err) ==
    \/ err.code # "" /\ toUpperCase(err.code) \in BLOCK_REPLY_TRANSIENT_ERRNO_CODES
    \/ BLOCK_REPLY_TRANSIENT_ERROR_RE(err.message)

\* The timeoutError sendPayload creates for a link.
BlockTimeoutError == [code |-> "", message |-> MsgBlockTimedOut, sentinel |-> TRUE]

\* The rejections onBlockReply is made to produce: one that is not
\* transient, one transient by its code, one transient by its message.
BlockReplyErrors == {ErrPermanent, ErrRefused, ErrRateLimit}

\* The retry predicate without the timeoutError test.
BlockShouldRetry_TimeoutRetried(err) ==
    shouldRetryBlockReplyError(err)

\* shouldRetry: (err) => err !== timeoutError && shouldRetryBlockReplyError(err)
BlockShouldRetry(err) ==
    err # BlockTimeoutError /\ shouldRetryBlockReplyError(err)

\* retryConfig.attempts raised by one.
BlockRetryAttempts_OneMore == resolveRetryConfig(params.attempts) + 1

\* retryConfig = resolveRetryConfig(BLOCK_REPLY_RETRY_DEFAULTS, retry)
BlockRetryAttempts == resolveRetryConfig(params.attempts)

\* The test reading what isAborted() returns.
AbortedFlag_OrDeliveryFailed == aborted \/ deliveryFailed

\* if (aborted): the closure variable, which no delivery outcome sets.
AbortedFlag == aborted

\* sendPayload's first duplicate test without the seenKeys lookup.
SeenBefore_Never(payloadKey) == FALSE

\* sendPayload: seenKeys.has(payloadKey)
SeenBefore(payloadKey) == payloadKey \in seenKeys

\* enqueue(payload) of a pipeline without coalescer and buffer:
\* sendPayload(payload), which skips or appends a link to sendChain.
PipelineEnqueue(payload) ==
    /\ lastEnqueue.n < MaxPipelineEnqueues
    /\ LET payloadKey == createBlockReplyPayloadKey(payload)
           skip == IF AbortedFlag THEN "aborted"
                   ELSE IF SeenBefore(payloadKey) THEN "duplicate-seen"
                   ELSE IF payloadKey \in sentKeys \/ payloadKey \in pendingKeys
                        THEN "duplicate-pending"
                   ELSE "none"
       IN  /\ lastEnqueue' = [n |-> lastEnqueue.n + 1, payload |-> payload,
                              skipped |-> skip]
           /\ seenKeys' = IF skip \in {"none", "duplicate-pending"}
                          THEN seenKeys \cup {payloadKey} ELSE seenKeys
           /\ IF skip = "none"
              THEN /\ pendingKeys' = pendingKeys \cup {payloadKey}
                   /\ sends' = Append(sends, [payload |-> payload, key |-> payloadKey,
                                              pc |-> "queued", calls |-> 0,
                                              err |-> NoError,
                                              signalAborted |-> FALSE])
              ELSE UNCHANGED <<pendingKeys, sends>>
    /\ UNCHANGED <<params, sentKeys, aborted, deliveryFailed, didStream, flushPc,
                   flushTarget, flushCalls, outsidePipeline>>

BlockLinks == 1..Len(sends)

\* onBlockReply(payload, {abortSignal, timeoutMs}) is invoked for link i.
CallOnBlockReply(i) ==
    sends' = [sends EXCEPT ![i].pc = "deliver", ![i].calls = @ + 1]

\* The link's first .then callback starts once the links before it have run
\* through: it returns false when aborted, else it calls onBlockReply.
BlockLinkStart(i) ==
    /\ i \in BlockLinks
    /\ sends[i].pc = "queued"
    /\ \A j \in 1..(i - 1) : sends[j].pc = "done"
    /\ IF AbortedFlag
       THEN sends' = [sends EXCEPT ![i].pc = "finally"]
       ELSE CallOnBlockReply(i)
    /\ UNCHANGED <<params, seenKeys, sentKeys, pendingKeys, aborted,
                   deliveryFailed, didStream, lastEnqueue, flushPc, flushTarget,
                   flushCalls, outsidePipeline>>

\* onBlockReply resolves: retryAsync returns, the second .then records the
\* key as sent.
BlockDeliverOk(i) ==
    /\ i \in BlockLinks
    /\ sends[i].pc = "deliver"
    /\ sends' = [sends EXCEPT ![i].pc = "finally", ![i].err = NoError]
    /\ sentKeys' = sentKeys \cup {sends[i].key}
    /\ didStream' = TRUE
    /\ UNCHANGED <<params, seenKeys, pendingKeys, aborted, deliveryFailed,
                   lastEnqueue, flushPc, flushTarget, flushCalls, outsidePipeline>>

\* An attempt fails with err: retryAsync backs off and retries, or rethrows
\* into the link's .catch, which aborts the signal on a timeout and sets
\* deliveryFailed.
BlockAttemptFailed(i, err) ==
    /\ IF retryAsyncGivesUp(sends[i].calls, BlockRetryAttempts, BlockShouldRetry(err))
       THEN /\ sends' = [sends EXCEPT ![i].pc = "finally", ![i].err = err,
                                      ![i].signalAborted = (err = BlockTimeoutError)]
            /\ deliveryFailed' = TRUE
       ELSE /\ sends' = [sends EXCEPT ![i].pc = "backoff", ![i].err = err]
            /\ UNCHANGED deliveryFailed
    /\ UNCHANGED <<params, seenKeys, sentKeys, pendingKeys, aborted, didStream,
                   lastEnqueue, flushPc, flushTarget, flushCalls, outsidePipeline>>

\* onBlockReply rejects (or throws) with err.
BlockDeliverReject(i, err) ==
    /\ i \in BlockLinks
    /\ sends[i].pc = "deliver"
    /\ BlockAttemptFailed(i, err)

\* withTimeout: the timer wins the race; only armed when timeoutMs > 0.
BlockDeliverTimeout(i) ==
    /\ i \in BlockLinks
    /\ sends[i].pc = "deliver"
    /\ params.timeoutMs > 0
    /\ BlockAttemptFailed(i, BlockTimeoutError)

\* retryAsync's backoff ends and the next attempt calls onBlockReply.
BlockBackoffDone(i) ==
    /\ i \in BlockLinks
    /\ sends[i].pc = "backoff"
    /\ CallOnBlockReply(i)
    /\ UNCHANGED <<params, seenKeys, sentKeys, pendingKeys, aborted,
                   deliveryFailed, didStream, lastEnqueue, flushPc, flushTarget,
                   flushCalls, outsidePipeline>>

\* The link's .finally: pendingKeys.delete(payloadKey).
BlockFinally(i) ==
    /\ i \in BlockLinks
    /\ sends[i].pc = "finally"
    /\ pendingKeys' = pendingKeys \ {sends[i].key}
    /\ sends' = [sends EXCEPT ![i].pc = "done"]
    /\ UNCHANGED <<params, seenKeys, sentKeys, aborted, deliveryFailed, didStream,
                   lastEnqueue, flushPc, flushTarget, flushCalls, outsidePipeline>>

\* flush(): await coalescer?.flush(options) with no coalescer.
FlushCall ==
    /\ flushCalls < MaxFlushes
    /\ flushPc \in {"none", "done"}
    /\ flushCalls' = flushCalls + 1
    /\ flushPc' = "awaitCoalescer"
    /\ UNCHANGED <<params, seenKeys, sentKeys, pendingKeys, aborted,
                   deliveryFailed, didStream, sends, lastEnqueue, flushTarget,
                   outsidePipeline>>

\* flush() goes on: flushBuffered() finds nothing, sendChain is read and
\* awaited.
FlushAwaitChain ==
    /\ flushPc = "awaitCoalescer"
    /\ flushPc' = "awaitChain"
    /\ flushTarget' = Len(sends)
    /\ UNCHANGED <<params, seenKeys, sentKeys, pendingKeys, aborted,
                   deliveryFailed, didStream, sends, lastEnqueue, flushCalls,
                   outsidePipeline>>

\* The sendChain flush() awaited has settled: flush() resolves.
FlushDone ==
    /\ flushPc = "awaitChain"
    /\ \A i \in 1..flushTarget : sends[i].pc = "done"
    /\ flushPc' = "done"
    /\ UNCHANGED <<params, seenKeys, sentKeys, pendingKeys, aborted,
                   deliveryFailed, didStream, sends, lastEnqueue, flushTarget,
                   flushCalls, outsidePipeline>>

\* isAborted()
isAborted == aborted \/ deliveryFailed

InitPipelineSpec ==
    /\ InitRecovery
    /\ InitLoop
    /\ InitPipeline
    /\ InitLater
    /\ env = [kinds |-> {"block"}, faults |-> FALSE]
    /\ options = [attempts |-> 1, durableRoute |-> TRUE,
                  deliveryTimeoutMs |-> DEFAULT_REPLY_DELIVERY_TIMEOUT_MS,
                  humanDelay |-> "off"]
    /\ InitDispatcher

NextPipeline ==
    \/ \E payload \in PipelinePayloads : PipelineEnqueue(payload)
    \/ \E i \in BlockLinks : BlockLinkStart(i)
    \/ \E i \in BlockLinks : BlockDeliverOk(i)
    \/ \E i \in BlockLinks, err \in BlockReplyErrors : BlockDeliverReject(i, err)
    \/ \E i \in BlockLinks : BlockDeliverTimeout(i)
    \/ \E i \in BlockLinks : BlockBackoffDone(i)
    \/ \E i \in BlockLinks : BlockFinally(i)
    \/ FlushCall
    \/ FlushAwaitChain
    \/ FlushDone

SpecPipeline == InitPipelineSpec /\ [][NextPipeline]_vars

\* The attempt of link i settles one way or another: onBlockReply resolves
\* or rejects, or the timer of withTimeout fires.
BlockAttemptSettles(i) ==
    \/ BlockDeliverOk(i)
    \/ \E err \in BlockReplyErrors : BlockDeliverReject(i, err)
    \/ BlockDeliverTimeout(i)

\* The event loop runs every promise reaction and timer that is due, and
\* every onBlockReply call settles or is timed out.
PipelineFairness ==
    \A i \in 1..MaxPipelineEnqueues :
        /\ WF_vars(BlockLinkStart(i))
        /\ WF_vars(BlockAttemptSettles(i))
        /\ WF_vars(BlockBackoffDone(i))
        /\ WF_vars(BlockFinally(i))

SpecPipelineLive == SpecPipeline /\ PipelineFairness

\* ---------------------------------------------------------- followup queue
\* Everything the reply path owns: the dispatcher, the store, the recovery
\* pass, the recovery loop and the block reply pipeline.
coreVars ==
    <<env, options, calls, results, onResultArg, pc, pending, completeCalled,
      completeTick, sentFirstBlock, queuedCounts, registered, idleCount,
      chainRejected, attempt, definitiveRetriesUsed, queueId, lastErr,
      linkRejected, senderView, abandoned, store, durableVars, loopVars, pipelineVars>>

\* Everything outside the followup queue.
outsideFollowup == <<coreVars, toolVars>>

\* The reply path as created and never used, for the specifications about
\* the components beside it.
InitCoreIdle ==
    /\ InitRecovery
    /\ InitLoop
    /\ InitPipelineIdle
    /\ env = [kinds |-> {"block"}, faults |-> FALSE]
    /\ options = [attempts |-> 1, durableRoute |-> TRUE,
                  deliveryTimeoutMs |-> DEFAULT_REPLY_DELIVERY_TIMEOUT_MS,
                  humanDelay |-> "off"]
    /\ InitDispatcher

\* The least element of a non-empty set of indices.
MinIndex(S) == CHOOSE k \in S : \A m \in S : k <= m

\* Array.prototype.findIndex over a set of matching indices (0 for -1).
findIndex(S) == IF S = {} THEN 0 ELSE MinIndex(S)

\* findQueuedRunIndex.hasSameRouting
hasSameRouting(item, followup) ==
    /\ item.route.channel = followup.route.channel
    /\ item.route.to = followup.route.to
    /\ item.route.accountId = followup.route.accountId
    /\ item.route.threadId = followup.route.threadId

\* The message-id test comparing the ids as given.
SameMessageId_Untrimmed(itemId, runId) ==
    itemId = runId

\* item.messageId?.trim() === messageId, messageId being followup.messageId?.trim()
SameMessageId(itemId, runId) ==
    trim(itemId) = trim(runId)

\* findQueuedRunIndex (0 stands for -1)
findQueuedRunIndex(followup, items, allowPromptFallback) ==
    IF trim(followup.messageId) # ""
    THEN findIndex({k \in 1..Len(items) :
                      /\ SameMessageId(items[k].messageId, followup.messageId)
                      /\ hasSameRouting(items[k], followup)})
    ELSE IF ~allowPromptFallback THEN 0
    ELSE findIndex({k \in 1..Len(items) :
                      /\ items[k].prompt = followup.prompt
                      /\ hasSameRouting(items[k], followup)})

\* applyQueueDropPolicy: what is left of the items, how many were dropped
\* into the summary, and whether the new item may be pushed.
applyQueueDropPolicy(items, config) ==
    IF config.cap <= 0 \/ Len(items) < config.cap
    THEN [items |-> items, dropped |-> 0, shouldEnqueue |-> TRUE]
    ELSE IF config.dropPolicy = "new"
    THEN [items |-> items, dropped |-> 0, shouldEnqueue |-> FALSE]
    ELSE LET dropCount == Len(items) - config.cap + 1
         IN  [items |-> SubSeq(items, dropCount + 1, Len(items)),
              dropped |-> IF config.dropPolicy = "summarize" THEN dropCount ELSE 0,
              shouldEnqueue |-> TRUE]

\* enqueueFollowupRun(key, run, settings, dedupeMode); Date.now() and the
\* run's session are the number of the call.
EnqueueFollowupRun(followup) ==
    /\ fqLastEnqueue.n < MaxFollowupEnqueues
    /\ LET n == fqLastEnqueue.n + 1
           item == [messageId |-> followup.messageId, prompt |-> followup.prompt,
                    route |-> followup.route, enqueuedAt |-> n, run |-> n]
           existingIndex ==
               IF fqConfig.dedupeMode = "none" THEN 0
               ELSE findQueuedRunIndex(followup, fqItems, fqConfig.dedupeMode = "prompt")
           policy == applyQueueDropPolicy(fqItems, fqConfig)
       IN  /\ fqExists' = TRUE
           /\ fqLastRun' = n
           /\ IF existingIndex > 0
              THEN \* { ...existing, ...run, enqueuedAt: existing.enqueuedAt }: a
                   \* run object without messageId key keeps the existing id
                   /\ \E hasIdKey \in BOOLEAN :
                         fqItems' = [fqItems EXCEPT ![existingIndex] =
                            [item EXCEPT
                               !.enqueuedAt = fqItems[existingIndex].enqueuedAt,
                               !.messageId =
                                   IF followup.messageId = "" /\ ~hasIdKey
                                   THEN fqItems[existingIndex].messageId
                                   ELSE followup.messageId]]
                   /\ fqLastEnqueue' = [n |-> n, run |-> followup, returned |-> TRUE]
                   /\ UNCHANGED fqDroppedCount
              ELSE /\ fqDroppedCount' = fqDroppedCount + policy.dropped
                   /\ fqItems' = IF policy.shouldEnqueue
                                 THEN Append(policy.items, item)
                                 ELSE policy.items
                   /\ fqLastEnqueue' = [n |-> n, run |-> followup,
                                        returned |-> policy.shouldEnqueue]
    /\ UNCHANGED <<fqConfig, fqDraining, fqPc, fqLocal, fqLastCall, fqFailures,
                   fqLoops, fqLastSchedule, outsideFollowup>>

\* isRoutableChannel
isRoutableChannel(channel) ==
    channel \in {"whatsapp"}

\* String(index) for the indices of a queue.
IndexString(index) ==
    <<"0", "1", "2", "3", "4", "5", "6", "7">>[index + 1]

\* The route key the drain computes for the item at array index `index`.
FollowupRouteKey(item, index) ==
    IF /\ item.route.channel = "" /\ item.route.to = ""
       /\ item.route.accountId = "" /\ item.route.threadId = ""
    THEN <<>>
    ELSE IF ~isRoutableChannel(item.route.channel) \/ item.route.to = ""
    THEN <<"unsafe", IndexString(index)>>
    ELSE <<item.route.channel, item.route.to, item.route.accountId,
           item.route.threadId>>

\* keyedItems filtered by whether the key is that of the first item.
RECURSIVE FilterByFirstKey(_, _, _, _)
FilterByFirstKey(items, k, firstKey, same) ==
    IF k > Len(items) THEN <<>>
    ELSE (IF (FollowupRouteKey(items[k], k - 1) = firstKey) = same
          THEN <<items[k]>> ELSE <<>>)
         \o FilterByFirstKey(items, k + 1, firstKey, same)

\* items.map((item) => item.prompt.trim()).filter((text) => text.length > 0)
RECURSIVE TrimmedPrompts(_)
TrimmedPrompts(items) ==
    IF items = <<>> THEN <<>>
    ELSE (IF trim(Head(items).prompt) # "" THEN <<trim(Head(items).prompt)>>
          ELSE <<>>)
         \o TrimmedPrompts(Tail(items))

\* items.find((i) => i.originatingX)?.originatingX
FindRouteField(items, field) ==
    LET S == {k \in 1..Len(items) : items[k].route[field] # ""}
    IN  IF S = {} THEN "" ELSE items[MinIndex(S)].route[field]

\* buildQueueSummaryPrompt returns a prompt.
HasSummaryPrompt ==
    fqConfig.dropPolicy = "summarize" /\ fqDroppedCount > 0

SummaryPart == "[queue summary]"

NoDrainLocals == [items |-> <<>>, remainingItems |-> <<>>, summaryPrompt |-> FALSE]

\* The drain loop goes round, or ends: the while test, and the finally
\* block, which deletes an empty queue and schedules a new drain otherwise.
DrainContinues(newItems, newDropped) ==
    /\ fqItems' = newItems
    /\ fqDroppedCount' = newDropped
    /\ fqLocal' = NoDrainLocals
    /\ IF Len(newItems) > 0 \/ newDropped > 0
       THEN fqDraining' = TRUE /\ fqPc' = "debounce" /\ UNCHANGED fqExists
       ELSE fqDraining' = FALSE /\ fqPc' = "idle" /\ fqExists' = FALSE

\* The early return without the test of queue.draining.
ScheduleReturnsEarly_NoDrainingTest ==
    ~fqExists

\* if (!queue || queue.draining) return;
ScheduleReturnsEarly ==
    ~fqExists \/ fqDraining

\* The drain loops running after a step of one of them: a loop whose finally
\* block leaves queue.draining false has ended (and deleted the queue), one
\* that calls scheduleFollowupDrain again is replaced by the new loop.
LoopsAfterStep(loops) ==
    IF fqDraining' THEN loops ELSE loops - 1

\* scheduleFollowupDrain(key, runFollowup) on a queue that is not draining:
\* a drain loop starts and runs up to its first await.
ScheduleFollowupDrain ==
    /\ ~ScheduleReturnsEarly
    /\ DrainContinues(fqItems, fqDroppedCount)
    /\ fqLoops' = LoopsAfterStep(fqLoops + 1)
    /\ fqLastSchedule' = "started"
    /\ UNCHANGED <<fqConfig, fqLastRun, fqLastCall, fqLastEnqueue, fqFailures,
                   outsideFollowup>>

\* scheduleFollowupDrain(key, runFollowup) returns at once: no queue, or the
\* queue is draining.
ScheduleFollowupDrainRefused ==
    /\ ScheduleReturnsEarly
    /\ fqLastSchedule' = "refused"
    /\ UNCHANGED <<fqConfig, fqExists, fqItems, fqDroppedCount, fqLastRun,
                   fqDraining, fqPc, fqLocal, fqLastCall, fqLastEnqueue,
                   fqFailures, fqLoops, outsideFollowup>>

\* waitForQueueDebounce resolves: the loop body runs up to its runFollowup
\* call, or round without one.
DrainIteration ==
    /\ fqPc = "debounce"
    /\ IF fqItems = <<>>
       THEN IF HasSummaryPrompt /\ fqLastRun # 0
            THEN /\ fqPc' = "runSummary"
                 /\ fqLastCall' = [n |-> fqLastCall.n + 1,
                                   prompt |-> <<SummaryPart>>,
                                   run |-> fqLastRun, route |-> RouteNone]
                 /\ UNCHANGED <<fqItems, fqDroppedCount, fqLocal, fqDraining,
                                fqExists>>
            ELSE /\ DrainContinues(fqItems, fqDroppedCount)
                 /\ UNCHANGED fqLastCall
       ELSE LET firstKey == FollowupRouteKey(fqItems[1], 0)
                items == FilterByFirstKey(fqItems, 1, firstKey, TRUE)
                remainingItems == FilterByFirstKey(fqItems, 1, firstKey, FALSE)
                prompt == (IF HasSummaryPrompt THEN <<SummaryPart>> ELSE <<>>)
                          \o TrimmedPrompts(items)
            IN  IF prompt = <<>>
                THEN /\ DrainContinues(remainingItems, fqDroppedCount)
                     /\ UNCHANGED fqLastCall
                ELSE /\ fqPc' = "run"
                     /\ fqLocal' = [items |-> items,
                                    remainingItems |-> remainingItems,
                                    summaryPrompt |-> HasSummaryPrompt]
                     /\ fqLastCall' =
                           [n |-> fqLastCall.n + 1, prompt |-> prompt,
                            run |-> items[Len(items)].run,
                            route |-> [channel |-> FindRouteField(items, "channel"),
                                       to |-> FindRouteField(items, "to"),
                                       accountId |-> FindRouteField(items, "accountId"),
                                       threadId |-> FindRouteField(items, "threadId")]]
                     /\ UNCHANGED <<fqItems, fqDroppedCount, fqDraining, fqExists>>
    /\ UNCHANGED <<fqConfig, fqLastRun, fqLastEnqueue, fqFailures, outsideFollowup>>
    /\ fqLoops' = LoopsAfterStep(fqLoops)
    /\ UNCHANGED fqLastSchedule

\* runFollowup resolves: queue.items = remainingItems, the summary state is
\* cleared when a summary went out, and the loop goes round.
RunFollowupOk ==
    /\ fqPc = "run"
    /\ DrainContinues(fqLocal.remainingItems,
                      IF fqLocal.summaryPrompt THEN 0 ELSE fqDroppedCount)
    /\ UNCHANGED <<fqConfig, fqLastRun, fqLastCall, fqLastEnqueue, fqFailures,
                   outsideFollowup>>
    /\ fqLoops' = LoopsAfterStep(fqLoops)
    /\ UNCHANGED fqLastSchedule

\* runFollowup resolves for a summary-only call.
RunSummaryOk ==
    /\ fqPc = "runSummary"
    /\ DrainContinues(fqItems, 0)
    /\ UNCHANGED <<fqConfig, fqLastRun, fqLastCall, fqLastEnqueue, fqFailures,
                   outsideFollowup>>
    /\ fqLoops' = LoopsAfterStep(fqLoops)
    /\ UNCHANGED fqLastSchedule

\* runFollowup rejects: the catch logs, the finally schedules a new drain.
RunFollowupReject ==
    /\ fqPc \in {"run", "runSummary"}
    /\ fqFailures < MaxDrains
    /\ fqFailures' = fqFailures + 1
    /\ DrainContinues(fqItems, fqDroppedCount)
    /\ UNCHANGED <<fqConfig, fqLastRun, fqLastCall, fqLastEnqueue,
                   outsideFollowup>>
    /\ fqLoops' = LoopsAfterStep(fqLoops)
    /\ UNCHANGED fqLastSchedule

InitFollowupSpec ==
    /\ InitCoreIdle
    /\ InitToolsIdle
    /\ InitFollowup

NextFollowup ==
    \/ \E followup \in FollowupRuns : EnqueueFollowupRun(followup)
    \/ ScheduleFollowupDrain
    \/ ScheduleFollowupDrainRefused
    \/ DrainIteration
    \/ RunFollowupOk
    \/ RunSummaryOk
    \/ RunFollowupReject

SpecFollowup == InitFollowupSpec /\ [][NextFollowup]_vars

\* ------------------------------------------------------------ gateway lock
\* Everything outside the gateway lock.
outsideLock == <<coreVars, followupVars, portVars, pwVars, menuVars, clsVars, acqVars>>

\* shared/pid-alive.js isPidAlive: process.kill(pid, 0) finds the process.
isPidAlive(proc) == proc.alive

\* resolveGatewayOwnerStatus, called without a port.
resolveGatewayOwnerStatus(payload, platform, proc) ==
    IF ~isPidAlive(proc) THEN "dead"
    ELSE IF platform # "linux" THEN "alive"
    ELSE IF payload.startTime # 0
         THEN IF proc.startTime = 0 THEN "unknown"
              ELSE IF proc.startTime = payload.startTime THEN "alive"
              ELSE "dead"
    ELSE IF proc.cmdline = "unreadable" THEN "unknown"
    ELSE IF proc.cmdline = "gateway" THEN "alive"
    ELSE "dead"

\* The value of a call to an async function that is not awaited: a Promise,
\* which is === to no string, whatever it resolves to.
PromiseOf(value) == "Promise of " \o value

\* readLockPayload: null when the file is missing, does not parse or lacks a
\* numeric pid.
readLockPayload(file) ==
    IF file.exists /\ file.valid
    THEN [isNull |-> FALSE, pid |-> file.pid, startTime |-> file.startTime]
    ELSE NoLockPayload

LockReturn(ownerPid, removedLock) ==
    [kind |-> "returned", removedLock |-> removedLock, ownerPid |-> ownerPid,
     waitedMs |-> 0, escalatedToSigkill |-> FALSE]

LockThrow(ownerPid) ==
    [kind |-> "threw", removedLock |-> FALSE, ownerPid |-> ownerPid,
     waitedMs |-> 0, escalatedToSigkill |-> FALSE]

\* forceReleaseGatewayLockAndWait up to `await readLockPayload(lockPath)`.
ForceReleaseCall ==
    /\ lockPc = "idle"
    /\ lockPayload' = readLockPayload(lockFile)
    /\ lockPc' = "read"
    /\ UNCHANGED <<lockFile, lockProc, lockOpts, lockSignals, lockResult,
                   outsideLock>>

\* forceReleaseGatewayLockAndWait from the payload on. ownerStatus is the
\* Promise that resolveGatewayOwnerStatus returned. On the kill path the
\* first `isAlive(ownerPid)` after the SIGTERM names a function the file
\* neither declares nor imports, which throws a ReferenceError.
ForceReleaseResume ==
    /\ lockPc = "read"
    /\ lockPc' = "done"
    /\ LET payload == lockPayload
           ownerPid == payload.pid
           ownerStatus ==
               PromiseOf(resolveGatewayOwnerStatus(payload, lockOpts.platform,
                                                   lockProc))
       IN  IF ownerPid = 0
           THEN /\ lockFile' = IF ~payload.isNull THEN NoLockFile ELSE lockFile
                /\ lockResult' = LockReturn(0, ~payload.isNull)
                /\ UNCHANGED lockSignals
           ELSE IF ownerStatus = "dead"
           THEN /\ lockFile' = NoLockFile
                /\ lockResult' = LockReturn(ownerPid, TRUE)
                /\ UNCHANGED lockSignals
           ELSE IF ownerStatus # "unknown" /\ ownerStatus # "alive"
           THEN /\ lockResult' = LockReturn(ownerPid, FALSE)
                /\ UNCHANGED <<lockFile, lockSignals>>
           ELSE IF ownerPid = SelfPid
           THEN /\ lockResult' = LockReturn(ownerPid, FALSE)
                /\ UNCHANGED <<lockFile, lockSignals>>
           ELSE /\ lockSignals' =
                       IF lockProc.alive
                       THEN Append(lockSignals,
                                   [signal |-> "SIGTERM", ownerAlive |-> TRUE])
                       ELSE lockSignals
                /\ lockResult' = LockThrow(ownerPid)
                /\ UNCHANGED lockFile
    /\ UNCHANGED <<lockProc, lockOpts, lockPayload, outsideLock>>

\* The owner process exits on its own.
LockOwnerExits ==
    /\ lockProc.alive
    /\ lockFile.pid # SelfPid
    /\ lockProc' = [lockProc EXCEPT !.alive = FALSE]
    /\ UNCHANGED <<lockFile, lockOpts, lockPc, lockPayload, lockSignals,
                   lockResult, outsideLock>>

InitLockSpec ==
    /\ InitCoreIdle
    /\ InitFollowupIdle
    /\ InitPortsIdle
    /\ InitPwAi
    /\ InitMenuIdle
    /\ InitClassifyIdle
    /\ InitAcquireIdle
    /\ InitLock

NextLock ==
    \/ ForceReleaseCall
    \/ ForceReleaseResume
    \/ LockOwnerExits

SpecLock == InitLockSpec /\ [][NextLock]_vars

\* ------------------------------------------------- freeing the gateway port
\* Everything outside the two force functions of cli/ports.ts.
outsidePorts == <<coreVars, followupVars, lockVars, pwVars, menuVars, clsVars, acqVars>>

\* Math.max and Math.min of two numbers
Max2(a, b) == IF a >= b THEN a ELSE b

Min2(a, b) == IF a <= b THEN a ELSE b

\* Math.ceil(a / b) for a >= 0 and b > 0
Ceil(a, b) == (a + b - 1) \div b

\* timeoutMs, intervalMs and sigtermTimeoutMs as the two functions clamp them.
ResolvePortOptions(raw) ==
    LET timeoutMs == Max2(raw.timeoutMs, 0)
    IN  [timeoutMs |-> timeoutMs,
         intervalMs |-> Max2(raw.intervalMs, 1),
         sigtermTimeoutMs |-> Min2(Max2(raw.sigtermTimeoutMs, 0), timeoutMs)]

\* killPids (and the loop of forceFreePort): process.kill(pid, signal) for
\* each process of the list, in list order.
RECURSIVE KillPids(_, _, _)
KillPids(pids, signal, waitedMs) ==
    IF pids = {} THEN <<>>
    ELSE LET p == MinIndex(pids)
         IN  <<[pid |-> p, signal |-> signal, waitedMs |-> waitedMs]>>
             \o KillPids(pids \ {p}, signal, waitedMs)

\* What a poll finds: listPortListeners(port) in forceFreePortAndWait,
\* killed.filter((p) => isAlive(p.pid)) in the gateway-process variant.
PortRemaining ==
    IF portFn = "port" THEN portTargets ELSE portKilled \cap portTargets

PortReturn(escalated) == [kind |-> "returned", escalatedToSigkill |-> escalated]

PortThrow == [kind |-> "threw", escalatedToSigkill |-> FALSE]

\* triesSigkill, from the budget that is left
TriesSigkill ==
    Ceil(Max2(portOpts.timeoutMs - portWaitedMs, 0), portOpts.intervalMs)

\* The call: the targets are listed and each gets a SIGTERM. portTry holds
\* the iterations the running loop has left.
PortCall(fn, raw) ==
    /\ portPc = "idle"
    /\ portFn' = fn
    /\ portOpts' = ResolvePortOptions(raw)
    /\ portKilled' = portTargets
    /\ portSignals' = KillPids(portTargets, "SIGTERM", 0)
    /\ IF portTargets = {}
       THEN /\ portPc' = "done"
            /\ portResult' = PortReturn(FALSE)
            /\ portTry' = 0
       ELSE /\ portPc' = "sigterm"
            /\ portTry' = Ceil(portOpts'.sigtermTimeoutMs, portOpts'.intervalMs)
            /\ UNCHANGED portResult
    /\ UNCHANGED <<portTargets, portWaitedMs, outsidePorts>>

\* One poll of the SIGTERM loop, or the check after it. When that check
\* finds targets, the gateway-process variant sends SIGKILL to the ones it
\* found; forceFreePortAndWait lists the listeners once more first.
SigtermPoll ==
    /\ portPc = "sigterm"
    /\ IF PortRemaining = {}
       THEN /\ portPc' = "done"
            /\ portResult' = PortReturn(FALSE)
            /\ UNCHANGED <<portTry, portSignals>>
       ELSE IF portTry > 0
       THEN /\ portPc' = "sigtermSleep"
            /\ UNCHANGED <<portTry, portSignals, portResult>>
       ELSE IF portFn = "port"
       THEN /\ portPc' = "escalate"
            /\ UNCHANGED <<portTry, portSignals, portResult>>
       ELSE /\ portSignals' =
                   portSignals \o KillPids(PortRemaining, "SIGKILL", portWaitedMs)
            /\ portPc' = "sigkill"
            /\ portTry' = TriesSigkill
            /\ UNCHANGED portResult
    /\ UNCHANGED <<portFn, portOpts, portTargets, portKilled, portWaitedMs,
                   outsidePorts>>

\* forceFreePortAndWait: const remaining = listPortListeners(port);
\* killPids(remaining, "SIGKILL")
PortEscalate ==
    /\ portPc = "escalate"
    /\ portSignals' = portSignals \o KillPids(portTargets, "SIGKILL", portWaitedMs)
    /\ portPc' = "sigkill"
    /\ portTry' = TriesSigkill
    /\ UNCHANGED <<portFn, portOpts, portTargets, portKilled, portWaitedMs,
                   portResult, outsidePorts>>

\* One poll of the SIGKILL loop, or the final check and the throw.
SigkillPoll ==
    /\ portPc = "sigkill"
    /\ IF PortRemaining = {}
       THEN /\ portPc' = "done"
            /\ portResult' = PortReturn(TRUE)
       ELSE IF portTry > 0
       THEN /\ portPc' = "sigkillSleep"
            /\ UNCHANGED portResult
       ELSE /\ portPc' = "done"
            /\ portResult' = PortThrow
    /\ UNCHANGED <<portFn, portOpts, portTargets, portKilled, portTry,
                   portWaitedMs, portSignals, outsidePorts>>

\* await sleep(intervalMs); waitedMs += intervalMs
PortSleepDone ==
    /\ portPc \in {"sigtermSleep", "sigkillSleep"}
    /\ portWaitedMs' = portWaitedMs + portOpts.intervalMs
    /\ portTry' = portTry - 1
    /\ portPc' = IF portPc = "sigtermSleep" THEN "sigterm" ELSE "sigkill"
    /\ UNCHANGED <<portFn, portOpts, portTargets, portKilled, portSignals,
                   portResult, outsidePorts>>

\* A target process exits: it stops listening and is no longer alive.
TargetExits(p) ==
    /\ p \in portTargets
    /\ portTargets' = portTargets \ {p}
    /\ UNCHANGED <<portFn, portOpts, portKilled, portPc, portTry, portWaitedMs,
                   portSignals, portResult, outsidePorts>>

InitPortsSpec ==
    /\ InitCoreIdle
    /\ InitFollowupIdle
    /\ InitLockIdle
    /\ InitPwAi
    /\ InitMenuIdle
    /\ InitClassifyIdle
    /\ InitAcquireIdle
    /\ InitPorts

NextPorts ==
    \/ \E fn \in {"port", "procs"}, raw \in RawPortOptions : PortCall(fn, raw)
    \/ SigtermPoll
    \/ PortEscalate
    \/ SigkillPoll
    \/ PortSleepDone
    \/ \E p \in PortPids : TargetExits(p)

SpecPorts == InitPortsSpec /\ [][NextPorts]_vars

\* ------------------------------------------------------ pw-ai module cache
\* Everything outside the pw-ai module cache.
outsidePwAi == <<coreVars, followupVars, lockVars, portVars, menuVars, clsVars, acqVars>>

\* null, and the module namespace that `await import("./pw-ai.js")` gives
NullModule == "null"

PwAiModule == "pw-ai.js"

PwAiLoadModes == {"soft", "strict"}

\* How a pwAiModuleLoader() call settles: with the module, with a
\* module-not-found error, or with another error.
LoaderOutcomes == {"module", "notFound", "boom"}

isModuleNotFoundError(outcome) == outcome = "notFound"

\* loadPwAiModule(mode), given how the loader settled
loadPwAiModule(mode, outcome) ==
    IF outcome = "module" THEN [threw |-> FALSE, value |-> PwAiModule]
    ELSE IF mode = "soft" THEN [threw |-> FALSE, value |-> NullModule]
    ELSE IF isModuleNotFoundError(outcome)
         THEN [threw |-> FALSE, value |-> NullModule]
    ELSE [threw |-> TRUE, value |-> NullModule]

InflightOf(mode) ==
    IF mode = "soft" THEN pwAiModuleSoftInflight ELSE pwAiModuleStrictInflight

\* if (cachedPwAiModule)
CacheHit_Never == FALSE
CacheHit == cachedPwAiModule # NullModule

\* getPwAiModule({mode}) up to its return or its `await` of the inflight
\* promise of the mode, which it creates, invoking the loader, when there is
\* none.
GetPwAiModule(mode) ==
    /\ Len(pwCalls) < MaxPwCalls
    /\ pwLastEvent' = [kind |-> "call", mode |-> mode, n |-> pwLastEvent.n + 1]
    /\ IF CacheHit
       THEN /\ pwCalls' = Append(pwCalls, [mode |-> mode, st |-> "returned",
                                           value |-> cachedPwAiModule])
            /\ UNCHANGED <<pwAiModuleSoftInflight, pwAiModuleStrictInflight,
                           pwLoaderCalls>>
       ELSE /\ pwCalls' = Append(pwCalls, [mode |-> mode, st |-> "awaiting",
                                           value |-> NullModule])
            /\ pwLoaderCalls' =
                   IF InflightOf(mode) THEN pwLoaderCalls ELSE pwLoaderCalls + 1
            /\ pwAiModuleSoftInflight' = (pwAiModuleSoftInflight \/ mode = "soft")
            /\ pwAiModuleStrictInflight' =
                   (pwAiModuleStrictInflight \/ mode = "strict")
    /\ UNCHANGED <<cachedPwAiModule, outsidePwAi>>

\* The loader call of the mode's inflight promise settles: loadPwAiModule,
\* the .then that caches a module, the .finally that clears the inflight
\* promise, and the callers that await it.
LoadSettles(mode, outcome) ==
    /\ InflightOf(mode)
    /\ LET mod == loadPwAiModule(mode, outcome)
       IN  /\ cachedPwAiModule' =
                  IF ~mod.threw /\ mod.value # NullModule THEN mod.value
                  ELSE cachedPwAiModule
           /\ pwCalls' =
                  [n \in 1..Len(pwCalls) |->
                      IF pwCalls[n].mode = mode /\ pwCalls[n].st = "awaiting"
                      THEN [mode |-> mode,
                            st |-> IF mod.threw THEN "threw" ELSE "returned",
                            value |-> mod.value]
                      ELSE pwCalls[n]]
           /\ pwLastEvent' =
                  [kind |-> IF mod.value # NullModule THEN "loaded" ELSE "failed",
                   mode |-> mode, n |-> pwLastEvent.n + 1]
    /\ pwAiModuleSoftInflight' = (pwAiModuleSoftInflight /\ mode # "soft")
    /\ pwAiModuleStrictInflight' = (pwAiModuleStrictInflight /\ mode # "strict")
    /\ UNCHANGED <<pwLoaderCalls, outsidePwAi>>

InitPwAiSpec ==
    /\ InitCoreIdle
    /\ InitFollowupIdle
    /\ InitLockIdle
    /\ InitPortsIdle
    /\ InitMenuIdle
    /\ InitClassifyIdle
    /\ InitAcquireIdle
    /\ InitPwAi

NextPwAi ==
    \/ \E mode \in PwAiLoadModes : GetPwAiModule(mode)
    \/ \E mode \in PwAiLoadModes, outcome \in LoaderOutcomes :
          LoadSettles(mode, outcome)

SpecPwAi == InitPwAiSpec /\ [][NextPwAi]_vars

\* --------------------------------------------------- Telegram command menu
\* Everything outside syncTelegramMenuCommands.
outsideMenu == <<coreVars, followupVars, lockVars, portVars, pwVars, clsVars, acqVars>>

\* How a bot.api request can fail: a recoverable network error, or a
\* rejection by Telegram (400 Bad Request).
MenuErrors == {"network", "badRequest"}

\* shouldRetry: (err) => isRecoverableTelegramNetworkError(err, ...)
isRecoverableTelegramNetworkError(err) == err = "network"

\* The retry runner gives up on an error that is not retryable, and after
\* params.attempts attempts.
MenuRetries(k, err) ==
    /\ isRecoverableTelegramNetworkError(err)
    /\ menuAttempt[k] < menuParams.attempts

\* .catch(() => {}) on the deleteMyCommands request
DeleteFailureSwallowed_Not == FALSE
DeleteFailureSwallowed == TRUE

MenuApiCall(k, op, n) == [sync |-> k, op |-> op, attempt |-> n]

\* sync() from the end of the delete step on: nothing to register, or the
\* first attempt of the setMyCommands request.
MenuAfterDelete(k) ==
    IF menuParams.commands = 0
    THEN /\ menuPc' = [menuPc EXCEPT ![k] = "done"]
         /\ UNCHANGED <<menuAttempt, menuApi>>
    ELSE /\ menuPc' = [menuPc EXCEPT ![k] = "set"]
         /\ menuAttempt' = [menuAttempt EXCEPT ![k] = 1]
         /\ menuApi' = Append(menuApi, MenuApiCall(k, "setMyCommands", 1))

\* void sync().catch(...): runtime.error
MenuSyncFailed(k) ==
    /\ menuPc' = [menuPc EXCEPT ![k] = "done"]
    /\ menuErrors' = [menuErrors EXCEPT ![k] = @ + 1]
    /\ UNCHANGED <<menuAttempt, menuApi>>

\* syncTelegramMenuCommands: sync() runs up to its first await, the first
\* attempt of deleteMyCommands when the bot has that method.
SyncTelegramMenuCommands(k) ==
    /\ menuPc[k] = "idle"
    /\ k > 1 => menuPc[k - 1] # "idle"
    /\ IF menuParams.hasDelete
       THEN /\ menuPc' = [menuPc EXCEPT ![k] = "delete"]
            /\ menuAttempt' = [menuAttempt EXCEPT ![k] = 1]
            /\ menuApi' = Append(menuApi, MenuApiCall(k, "deleteMyCommands", 1))
       ELSE MenuAfterDelete(k)
    /\ UNCHANGED <<menuParams, menuDelete, menuErrors, outsideMenu>>

\* The bot.api call in progress resolves.
MenuApiResolves(k) ==
    /\ menuPc[k] \in {"delete", "set"}
    /\ IF menuPc[k] = "delete"
       THEN /\ menuDelete' = [menuDelete EXCEPT ![k] = "ok"]
            /\ MenuAfterDelete(k)
       ELSE /\ menuPc' = [menuPc EXCEPT ![k] = "done"]
            /\ UNCHANGED <<menuAttempt, menuApi, menuDelete>>
    /\ UNCHANGED <<menuParams, menuErrors, outsideMenu>>

\* The bot.api call in progress rejects: the runner backs off and retries,
\* or the request rejects. A rejected delete is swallowed and sync() goes
\* on; a rejected set rejects sync().
MenuApiRejects(k, err) ==
    /\ menuPc[k] \in {"delete", "set"}
    /\ IF MenuRetries(k, err)
       THEN /\ menuPc' = [menuPc EXCEPT ![k] =
                             IF menuPc[k] = "delete" THEN "deleteBackoff"
                             ELSE "setBackoff"]
            /\ UNCHANGED <<menuAttempt, menuApi, menuDelete, menuErrors>>
       ELSE IF menuPc[k] = "delete"
       THEN /\ menuDelete' = [menuDelete EXCEPT ![k] = "failed"]
            /\ IF DeleteFailureSwallowed
               THEN MenuAfterDelete(k) /\ UNCHANGED menuErrors
               ELSE MenuSyncFailed(k)
       ELSE /\ MenuSyncFailed(k)
            /\ UNCHANGED menuDelete
    /\ UNCHANGED <<menuParams, outsideMenu>>

\* The runner's delay is over: the next attempt of the same request.
MenuBackoffDone(k) ==
    /\ menuPc[k] \in {"deleteBackoff", "setBackoff"}
    /\ menuAttempt' = [menuAttempt EXCEPT ![k] = @ + 1]
    /\ menuApi' = Append(menuApi,
                         MenuApiCall(k, IF menuPc[k] = "deleteBackoff"
                                        THEN "deleteMyCommands"
                                        ELSE "setMyCommands",
                                     menuAttempt[k] + 1))
    /\ menuPc' = [menuPc EXCEPT ![k] =
                     IF menuPc[k] = "deleteBackoff" THEN "delete" ELSE "set"]
    /\ UNCHANGED <<menuParams, menuDelete, menuErrors, outsideMenu>>

InitMenuSpec ==
    /\ InitCoreIdle
    /\ InitFollowupIdle
    /\ InitLockIdle
    /\ InitPortsIdle
    /\ InitPwAi
    /\ InitClassifyIdle
    /\ InitAcquireIdle
    /\ InitMenu

NextMenu ==
    \/ \E k \in Syncs : SyncTelegramMenuCommands(k)
    \/ \E k \in Syncs : MenuApiResolves(k)
    \/ \E k \in Syncs, err \in MenuErrors : MenuApiRejects(k, err)
    \/ \E k \in Syncs : MenuBackoffDone(k)

SpecMenu == InitMenuSpec /\ [][NextMenu]_vars

\* ------------------------------------------------ the error classifier alone
\* classifyReplyDeliveryError applied to one error after another, as the
\* retry predicate and the link's catch apply it to what the sender threw.
outsideClassify == <<coreVars, followupVars, lockVars, portVars, pwVars, menuVars, acqVars>>

\* Error codes a thrown error carries: none, codes of the two tables (one in
\* lower case), and a code of neither table.
ClassifierCodes ==
    {"", "ECONNRESET", "EPIPE", "ECONNREFUSED", "econnrefused", "EACCES"}

ClassifierMessages ==
    {MsgBadRequest, MsgChatNotFound, MsgUnavailableNotFound, MsgReset,
     MsgRateLimit, MsgTimedOut, MsgConnectRefused, MsgUnknown}

\* What the classifier can be handed: any error of the sender, and, when a
\* delivery timeout is configured, the timeoutError object itself.
ClassifierErrors(timeoutOn) ==
    [code : ClassifierCodes, message : ClassifierMessages, sentinel : {FALSE}]
      \cup (IF timeoutOn THEN {TimeoutError} ELSE {})

ClassifierInput ==
    /\ clsTimeoutOn' \in BOOLEAN
    /\ clsErr' \in ClassifierErrors(clsTimeoutOn')
    /\ clsOut' = "none"

InitClassify ==
    /\ clsTimeoutOn \in BOOLEAN
    /\ clsErr \in ClassifierErrors(clsTimeoutOn)
    /\ clsOut = "none"

\* classifyReplyDeliveryError(err, timeoutError) returns.
ClassifyCall ==
    /\ clsOut = "none"
    /\ clsErr # NoError
    /\ clsOut' = classifyReplyDeliveryError(clsErr, clsTimeoutOn)
    /\ UNCHANGED <<clsErr, clsTimeoutOn, outsideClassify>>

\* The next error reaches the classifier.
ClassifyNextError ==
    /\ clsOut # "none"
    /\ ClassifierInput
    /\ UNCHANGED outsideClassify

NextClassify ==
    \/ ClassifyCall
    \/ ClassifyNextError

InitClassifySpec ==
    /\ InitCoreIdle
    /\ InitFollowupIdle
    /\ InitLockIdle
    /\ InitPortsIdle
    /\ InitPwAi
    /\ InitMenuIdle
    /\ InitAcquireIdle
    /\ InitClassify

SpecClassify == InitClassifySpec /\ [][NextClassify]_vars

\* ------------------------------------------- acquiring the gateway lock
\* acquireGatewayLock called by two gateway processes for the same config
\* path, after an earlier owner left its lock file behind.
outsideAcquire == <<coreVars, followupVars, lockVars, portVars, pwVars, menuVars, clsVars>>

\* The payload acquireGatewayLock writes: process.pid and, on linux, the
\* process's start time.
AcquirerPayload(p) ==
    [exists |-> TRUE, valid |-> TRUE, pid |-> p,
     startTime |-> IF acqOpts.platform = "linux" THEN acqProcs[p].startTime ELSE 0,
     old |-> FALSE, creator |-> p]

\* while (Date.now() - startedAt < timeoutMs), the time being counted in
\* poll intervals.
AcquireTimeLeft(p) ==
    acqPolls[p] < MaxLockPolls

\* The loop test and `await fs.open(lockPath, "wx")`: the file is created
\* (empty) when the path is free, EEXIST leads to the catch block.
AcquireOpen(p) ==
    /\ acqPc[p] = "open"
    /\ IF ~AcquireTimeLeft(p)
       THEN /\ acqPc' = [acqPc EXCEPT ![p] = "timedOut"]
            /\ UNCHANGED acqFile
       ELSE IF ~acqFile.exists
       THEN /\ acqFile' = [exists |-> TRUE, valid |-> FALSE, pid |-> 0,
                           startTime |-> 0, old |-> FALSE, creator |-> p]
            /\ acqPc' = [acqPc EXCEPT ![p] = "write"]
       ELSE /\ acqPc' = [acqPc EXCEPT ![p] = "read"]
            /\ UNCHANGED acqFile
    /\ UNCHANGED <<acqProcs, acqOpts, acqPayload, acqPolls, outsideAcquire>>

\* await handle.writeFile(JSON.stringify(payload)), and the handle is
\* returned.  The write goes to the file the handle was opened on, which is
\* no longer at the path when another process removed it.
AcquireWrite(p) ==
    /\ acqPc[p] = "write"
    /\ acqFile' = IF acqFile.exists /\ acqFile.creator = p
                  THEN AcquirerPayload(p)
                  ELSE acqFile
    /\ acqPc' = [acqPc EXCEPT ![p] = "held"]
    /\ UNCHANGED <<acqProcs, acqOpts, acqPayload, acqPolls, outsideAcquire>>

\* lastPayload = await readLockPayload(lockPath)
AcquireRead(p) ==
    /\ acqPc[p] = "read"
    /\ acqPayload' = [acqPayload EXCEPT ![p] =
                         [payload |-> readLockPayload(acqFile),
                          old |-> acqFile.exists /\ acqFile.valid /\ acqFile.old]]
    /\ acqPc' = [acqPc EXCEPT ![p] = "status"]
    /\ UNCHANGED <<acqFile, acqProcs, acqOpts, acqPolls, outsideAcquire>>

\* The owner status and what follows from it: remove the file of a dead
\* owner, test staleness when the owner is not known to be alive (by
\* createdAt when the payload has one), sleep otherwise.
AcquireOwnerStatus(p) ==
    /\ acqPc[p] = "status"
    /\ LET lastPayload == acqPayload[p].payload
           ownerPid == lastPayload.pid
           ownerStatus ==
               IF ownerPid # 0
               THEN resolveGatewayOwnerStatus(lastPayload, acqOpts.platform,
                                              acqProcs[ownerPid])
               ELSE "unknown"
       IN  acqPc' = [acqPc EXCEPT ![p] =
              IF ownerStatus = "dead" /\ ownerPid # 0 THEN "rm"
              ELSE IF ownerStatus = "alive" THEN "sleep"
              ELSE IF acqPayload[p].old THEN "rm"
              ELSE "stat"]
    /\ UNCHANGED <<acqFile, acqProcs, acqOpts, acqPayload, acqPolls, outsideAcquire>>

\* await fs.stat(lockPath): stale by mtime, or not stale when stat throws.
AcquireStat(p) ==
    /\ acqPc[p] = "stat"
    /\ acqPc' = [acqPc EXCEPT ![p] =
                    IF acqFile.exists /\ acqFile.old THEN "rm" ELSE "sleep"]
    /\ UNCHANGED <<acqFile, acqProcs, acqOpts, acqPayload, acqPolls, outsideAcquire>>

\* await fs.rm(lockPath, { force: true }); continue
AcquireRm(p) ==
    /\ acqPc[p] = "rm"
    /\ acqFile' = AcqNoFile
    /\ acqPc' = [acqPc EXCEPT ![p] = "open"]
    /\ UNCHANGED <<acqProcs, acqOpts, acqPayload, acqPolls, outsideAcquire>>

\* The poll sleep ends.
AcquireSleepDone(p) ==
    /\ acqPc[p] = "sleep"
    /\ acqPolls' = [acqPolls EXCEPT ![p] = @ + 1]
    /\ acqPc' = [acqPc EXCEPT ![p] = "open"]
    /\ UNCHANGED <<acqFile, acqProcs, acqOpts, acqPayload, outsideAcquire>>

\* release(): await handle.close()
ReleaseClose(p) ==
    /\ acqPc[p] = "held"
    /\ acqPc' = [acqPc EXCEPT ![p] = "closed"]
    /\ UNCHANGED <<acqFile, acqProcs, acqOpts, acqPayload, acqPolls, outsideAcquire>>

\* release(): await fs.rm(lockPath, { force: true })
ReleaseRm(p) ==
    /\ acqPc[p] = "closed"
    /\ acqFile' = AcqNoFile
    /\ acqPc' = [acqPc EXCEPT ![p] = "released"]
    /\ UNCHANGED <<acqProcs, acqOpts, acqPayload, acqPolls, outsideAcquire>>

NextAcquire ==
    \/ \E p \in AcquirerPids : AcquireOpen(p)
    \/ \E p \in AcquirerPids : AcquireWrite(p)
    \/ \E p \in AcquirerPids : AcquireRead(p)
    \/ \E p \in AcquirerPids : AcquireOwnerStatus(p)
    \/ \E p \in AcquirerPids : AcquireStat(p)
    \/ \E p \in AcquirerPids : AcquireRm(p)
    \/ \E p \in AcquirerPids : AcquireSleepDone(p)
    \/ \E p \in AcquirerPids : ReleaseClose(p)
    \/ \E p \in AcquirerPids : ReleaseRm(p)

InitAcquireSpec ==
    /\ InitCoreIdle
    /\ InitFollowupIdle
    /\ InitLockIdle
    /\ InitPortsIdle
    /\ InitPwAi
    /\ InitMenuIdle
    /\ InitClassifyIdle
    /\ InitAcquire

SpecAcquire == InitAcquireSpec /\ [][NextAcquire]_vars

\* ------------------------------------------------------------------ claims
Active(i) == pc[i] \notin {"none", "queued", "done"}

Decided(i) == pc[i] \in {"none", "done"}

\* The sender has been invoked for link i and its last attempt failed with an
\* error of the given class.
FailedWith(i, class) ==
    /\ Active(i)
    /\ senderView.call = i
    /\ lastErr # NoError
    /\ classifyReplyDeliveryError(lastErr, TimeoutOn) = class

\* C1: the sender sees the payloads in enqueue order: it is first invoked for
\* a payload only when every earlier enqueue is decided (its link has run
\* through), it never goes back to an earlier payload, and no two links are
\* under way at once, whatever retries and backoff a payload needed.
C1_SenderSeesEnqueueOrder ==
    /\ [](\A i, j \in Links : (i < j /\ Active(j)) => Decided(i))
    /\ [][senderView'.call # senderView.call =>
            /\ senderView'.call > senderView.call
            /\ \A j \in 1..(senderView'.call - 1) : pc'[j] \in {"none", "done"}]_vars

\* C1 witness: the first payload used up a retry and failed for good, and the
\* sender is now invoked for the second.
C1_Witness ==
    /\ senderView.call = 2
    /\ pc[2] = "deliver"
    /\ options.attempts >= 2
    /\ onResultArg.call = 1
    /\ onResultArg.status = "failed"
    /\ classifyReplyDeliveryError(onResultArg.error, TimeoutOn) = "transient-definitive"


\* C2: every enqueued payload reaches a terminal outcome: once its link has
\* run through (and for a refused payload at once), its result is settled as
\* sent, skipped or failed.
C2_EveryPayloadSettles ==
    \A i \in Links : Decided(i) => results[i].status \in {"sent", "skipped", "failed"}

\* An enqueue step adds call number Len(calls) + 1.
EnqueueStep == Len(calls') = Len(calls) + 1

SameKeySentOrPending(key) ==
    \E i \in Links : /\ calls[i].accepted
                     /\ calls[i].key = key
                     /\ results[i].status \in {"none", "sent"}

C4_PendingNonNegative ==
    pending >= 0

\* C5: pending is 0 only if markComplete() has been called and no accepted
\* payload is still undecided.
C5_IdleOnlyWhenDrained ==
    pending = 0 => completeCalled /\ \A i \in Links : Decided(i)


NothingAccepted == \A i \in Links : ~calls[i].accepted

\* C6: when markComplete's microtask runs on a dispatcher on which nothing
\* was accepted, pending drops to 0 and onIdle is invoked there and then, the
\* sender never having been invoked; when a payload accepted before the
\* microtask is still undecided, the microtask changes nothing, and the first
\* idle signal comes only once every accepted payload is decided.
C6_CompleteBeforeEnqueue ==
    /\ [][(completeTick /\ ~completeTick' /\ idleCount = 0) =>
            IF NothingAccepted
            THEN /\ pending' = 0
                 /\ idleCount' = 1
                 /\ ~registered'
                 /\ senderView.call = 0
            ELSE (\E i \in Links : ~Decided(i)) =>
                    /\ pending' = pending
                    /\ idleCount' = 0]_vars
    /\ [][(idleCount = 0 /\ idleCount' > 0) =>
            \A i \in 1..Len(calls') : pc'[i] \in {"none", "done"}]_vars

\* C6 witness: markComplete() on a dispatcher with nothing accepted has made
\* it idle.
C6_Witness ==
    /\ completeCalled
    /\ ~completeTick
    /\ NothingAccepted
    /\ pending = 0
    /\ idleCount = 1

\* The record of link i after the failure branch's store update.
RecordAfterFailure(i, op) ==
    IF queueId = 0 THEN store[i] = "none"
    ELSE store[i] \in {"enqueued", RecordStateAfter(op)}

\* The step in which link i's result is settled, after its last attempt
\* failed with an error of the given class: it is settled as failed, and
\* onResult receives that very error.
SettlesFailedWithLastError(i, class) ==
    (/\ results[i].status = "none"
     /\ results'[i].status # "none"
     /\ senderView.call = i
     /\ lastErr' # NoError
     /\ classifyReplyDeliveryError(lastErr', TimeoutOn) = class)
    => /\ results'[i] = [status |-> "failed", reason |-> "none", n |-> 1]
       /\ onResultArg' = [call |-> i, status |-> "failed", error |-> lastErr']

\* C7: after a sender rejection classified permanent the sender is not
\* invoked again for that payload (no backoff, no further attempt), the
\* record is updated through failDelivery and never left uncertain, and the
\* result is settled as failed with that error.
C7_PermanentFailsAtOnce ==
    /\ [](\A i \in Links :
            FailedWith(i, "permanent") =>
               /\ pc[i] \in {"failDelivery", "catch", "finally"}
               /\ senderView.n = attempt
               /\ store[i] # "uncertain"
               /\ pc[i] \in {"catch", "finally"} =>
                     /\ results[i].status = "failed"
                     /\ RecordAfterFailure(i, "failDelivery"))
    /\ [][\A i \in Links : SettlesFailedWithLastError(i, "permanent")]_vars

\* C7 witness: with retries configured, the first sender call was rejected
\* with a permanent error; the record is failed and the result settled.
C7_Witness ==
    \E i \in Links :
       /\ FailedWith(i, "permanent")
       /\ options.attempts >= 2
       /\ senderView.n = 1
       /\ pc[i] = "catch"
       /\ store[i] = "failed"
       /\ results[i].status = "failed"

\* C8: the sender is invoked at most `attempts` times for one payload; a
\* backoff follows only a transient-definitive failure with attempts left;
\* after the sender succeeded it is not invoked again for that payload; and a
\* failed result carries the last error unchanged.
C8_BoundedDefinitiveRetries ==
    /\ [](\A i \in Links :
            /\ senderView.call = i => senderView.n <= options.attempts
            /\ pc[i] = "backoff" =>
                  /\ FailedWith(i, "transient-definitive")
                  /\ senderView.n < options.attempts
            /\ (FailedWith(i, "transient-definitive") /\ pc[i] \in {"catch", "finally"}) =>
                  /\ senderView.n = options.attempts
                  /\ results[i].status = "failed")
    /\ [][\A i \in Links :
            /\ (pc[i] \in {"markDelivered", "ack"} \/ results[i].status = "sent") =>
                  (senderView'.call = i => senderView' = senderView)
            /\ SettlesFailedWithLastError(i, "transient-definitive")]_vars

\* C8 witness: every one of the configured attempts (more than one) failed
\* with a transient-definitive error and the result is settled as failed.
C8_Witness ==
    \E i \in Links :
       /\ FailedWith(i, "transient-definitive")
       /\ options.attempts >= 2
       /\ senderView.n = options.attempts
       /\ pc[i] = "catch"
       /\ results[i].status = "failed"

\* C9: after an attempt failed with an error classified transient-ambiguous
\* (the delivery timeout included) the sender is not invoked again for that
\* payload, the record is updated through markDeliveryUncertain and is never
\* failed, and the result is settled as failed.
C9_AmbiguousNotRetried ==
    /\ [](\A i \in Links :
            FailedWith(i, "transient-ambiguous") =>
               /\ pc[i] \in {"markDeliveryUncertain", "catch", "finally"}
               /\ senderView.n = attempt
               /\ store[i] # "failed"
               /\ pc[i] \in {"catch", "finally"} =>
                     /\ results[i].status = "failed"
                     /\ RecordAfterFailure(i, "markDeliveryUncertain"))
    /\ [][\A i \in Links :
            store[i] = "uncertain" => store'[i] = "uncertain"]_vars

\* C9 witness: with retries left, the delivery timeout fired on the first
\* attempt; the record is uncertain and the result settled as failed.
C9_Witness ==
    \E i \in Links :
       /\ lastErr = TimeoutError
       /\ FailedWith(i, "transient-ambiguous")
       /\ options.attempts >= 2
       /\ senderView.n = 1
       /\ pc[i] = "catch"
       /\ store[i] = "uncertain"
       /\ results[i].status = "failed"

\* C10: sendChain never ends up rejected, so a failed payload never keeps a
\* later one from the sender.
C10_ChainNeverRejected ==
    ~chainRejected

\* -------------------------------------------- claims: crash and recovery
\* The dispatcher's sender call for payload i has resolved.
SenderSucceeded(i) ==
    pc[i] \in {"markDelivered", "ack"} \/ results[i].status = "sent"

\* The dispatcher has invoked the sender for payload i.
SenderInvoked(i) ==
    pc[i] \notin {"none", "queued", "sleep", "enqueueDelivery"}

\* C11: with a durable route, at a crash every accepted payload has been
\* handed to the sender or has a durable record.
C11_CrashNeverDrops ==
    ~alive => \A i \in Links :
                 calls[i].accepted => SenderInvoked(i) \/ store[i] # "none"

\* C12: a recovery pass after a crash never replays with success a payload
\* whose sender call had already succeeded before the crash.
C12_NoDoubleSendAfterCrash ==
    \A r \in replayOk : ~r.alive => ~SenderSucceeded(r.call)

\* C13: without a crash, no payload is accepted by the sender both from the
\* live dispatcher and from a recovery pass.
C13_NoDoubleSendWhileLive ==
    alive => \A r \in replayOk : ~SenderSucceeded(r.call)

\* ------------------------------------------------ claims: recovery loop
\* A step in which run() is invoked.
RunStep == RunInvocations' = RunInvocations + 1

\* The run() invocations of this step that went to wait.
NewAwaiting == awaiting' \ awaiting

\* C14: at most one recoverPendingDeliveries call is outstanding; without
\* stop(), a trigger arriving during a pass calls no scan and waits for that
\* very pass; and a run() that waits for a pass returns only once that pass
\* has finished.
C14_NoOverlappingPasses ==
    /\ [](/\ Cardinality(scanning) <= 1
          /\ scanning # {} => scanning = {inFlight})
    /\ [][(RunStep /\ scanning # {} /\ ~stopped) =>
            /\ scanCalls' = scanCalls
            /\ scanning' = scanning
            /\ \E w \in NewAwaiting : w.kind = "run" /\ w.on \in scanning]_vars
    /\ [][\A w \in awaiting \ awaiting' :
            w.kind = "run" => w.on \notin scanning']_vars

\* C14 witness: an interval trigger and a manual trigger wait for the pass
\* the startup trigger started, which is still scanning.
C14_Witness ==
    /\ scanning = {1}
    /\ scanCalls = 1
    /\ \E w \in awaiting : w.trigger = "interval" /\ w.on = 1
    /\ \E w \in awaiting : w.trigger = "manual" /\ w.on = 1

\* A step in which start() is called.
StartStep == startCalls' = startCalls + 1

\* C15 as stated: start() on a loop neither started nor stopped starts one
\* pass at once; any other start() changes nothing.
C15_StartRunsOnePass ==
    [][StartStep =>
         IF ~timer /\ ~stopped
         THEN /\ scanCalls' = scanCalls + 1
              /\ triggerCount'.startup = triggerCount.startup + 1
              /\ timer'
         ELSE UNCHANGED <<timer, inFlight, scanning, scanCalls, awaiting,
                          triggerCount>>]_vars

\* C15 amended: start() on a loop neither started nor stopped issues one
\* startup trigger and creates the timer; the trigger starts a pass unless
\* one is in flight, which it then joins.  There is never a second startup
\* trigger, every tick of the timer issues one interval trigger, and any
\* other start() changes nothing.
C15_StartTriggersOnce ==
    /\ [][StartStep =>
            IF ~timer /\ ~stopped
            THEN /\ triggerCount'.startup = triggerCount.startup + 1
                 /\ timer'
                 /\ IF inFlight = 0
                    THEN scanCalls' = scanCalls + 1 /\ inFlight' = scanCalls'
                    ELSE /\ UNCHANGED <<scanCalls, inFlight>>
                         /\ \E w \in NewAwaiting :
                               w.trigger = "startup" /\ w.on = inFlight
            ELSE UNCHANGED <<timer, inFlight, scanning, scanCalls, awaiting,
                             triggerCount>>]_vars
    /\ [](triggerCount.startup <= 1)
    /\ [][triggerCount'.interval # triggerCount.interval =>
            /\ timer /\ ~stopped
            /\ triggerCount'.interval = triggerCount.interval + 1]_vars

\* C15 witness: start() was called twice and the timer has ticked; there was
\* one startup trigger.
C15_Witness ==
    /\ startCalls = 2
    /\ stopCalls = 0
    /\ triggerCount.startup = 1
    /\ triggerCount.interval >= 1

\* C16: once stop() has been called no pass is started any more; a stop()
\* promise resolves only when no pass is in flight, and from then on
\* isRunning() is false.
C16_StopLeavesNothingRunning ==
    /\ [][stopped => scanCalls' = scanCalls /\ scanning' \subseteq scanning]_vars
    /\ [][stopResolved' # stopResolved =>
            /\ \A w \in awaiting \ awaiting' : w.on \notin scanning
            /\ scanning' = {}
            /\ ~isRunning']_vars
    /\ [](stopResolved > 0 => ~isRunning /\ scanning = {})

\* C16 witness: stop() was called while pass 1 was in flight and is still
\* suspended; the pass has finished and runNow() has been called since.
C16_Witness ==
    /\ stopped
    /\ triggerCount.manual >= 1
    /\ \E w \in awaiting : w.kind = "stop" /\ w.on = 1 /\ w.on \notin scanning
    /\ ~isRunning

\* ------------------------------------------- claims: block reply pipeline
\* The onBlockReply calls made so far for payloadKey.
RECURSIVE CallsForKey(_, _)
CallsForKey(payloadKey, n) ==
    IF n = 0 THEN 0
    ELSE CallsForKey(payloadKey, n - 1)
         + (IF sends[n].key = payloadKey THEN sends[n].calls ELSE 0)

PayloadKeys == {createBlockReplyPayloadKey(payload) : payload \in PipelinePayloads}

\* A step in which the pipeline's enqueue() is called.
PipelineEnqueueStep == lastEnqueue'.n = lastEnqueue.n + 1

\* The delivery of link i was given up.
BlockGaveUp(i) ==
    sends[i].pc \in {"finally", "done"} /\ sends[i].err # NoError

\* flush() has resolved after link i was enqueued.
FlushedPast(i) ==
    flushPc = "done" /\ flushTarget >= i

\* C17 as stated: onBlockReply is never invoked twice for one payload key.
C17_OneCallPerKey ==
    \A payloadKey \in PayloadKeys : CallsForKey(payloadKey, Len(sends)) <= 1

\* C17 amended: no two deliveries share a payload key, so the only repeated
\* onBlockReply calls for a key are the retries of its one delivery; an
\* enqueue of a payload whose key an earlier enqueue had is skipped with
\* duplicate-seen and adds no delivery, whether the first is pending, sent
\* or failed.
C17_OneDeliveryPerKey ==
    /\ [](\A i, j \in BlockLinks : sends[i].key = sends[j].key => i = j)
    /\ [][(PipelineEnqueueStep /\ \E i \in BlockLinks :
                sends[i].key = createBlockReplyPayloadKey(lastEnqueue'.payload))
           => /\ lastEnqueue'.skipped = "duplicate-seen"
              /\ sends' = sends]_vars

\* C17 witness: " a " is enqueued after the delivery of "a" failed for good,
\* and is skipped as duplicate-seen.
C17_Witness ==
    /\ Len(sends) = 1
    /\ sends[1].payload.text = "a"
    /\ sends[1].pc = "done"
    /\ BlockGaveUp(1)
    /\ lastEnqueue.n = 2
    /\ lastEnqueue.payload.text = " a "
    /\ lastEnqueue.skipped = "duplicate-seen"

NonTransientFailure(i) ==
    /\ sends[i].err \in BlockReplyErrors
    /\ ~shouldRetryBlockReplyError(sends[i].err)

\* C19: a delivery failing with a non-transient error is not retried, and
\* when it was the only delivery, failing at its first attempt, then after
\* flush() there was one onBlockReply call, didStream() is false and
\* isAborted() is false.
C19_NonTransientNotAborted ==
    \A i \in BlockLinks :
        NonTransientFailure(i) =>
            /\ sends[i].pc \in {"finally", "done"}
            /\ (Len(sends) = 1 /\ FlushedPast(i) /\ sends[i].calls = 1)
               => ~didStream /\ ~isAborted

\* C20: a delivery whose attempt timed out is never attempted again, its
\* abort signal is aborted and isAborted() is true from then on; when the
\* first attempt timed out there is one onBlockReply call for the payload.
C20_TimeoutNotRetried ==
    /\ [](\A i \in BlockLinks :
            sends[i].err = BlockTimeoutError =>
                /\ sends[i].pc \in {"finally", "done"}
                /\ sends[i].signalAborted
                /\ isAborted)
    /\ [][\A i \in BlockLinks :
            sends[i].err = BlockTimeoutError =>
                sends'[i].calls = sends[i].calls]_vars
    /\ [][\A i \in BlockLinks :
            (sends[i].pc = "deliver" /\ sends'[i].err = BlockTimeoutError)
            => sends'[i].pc = "finally" /\ sends'[i].calls = sends[i].calls]_vars

\* C20 witness: with two attempts allowed the first attempt of the first
\* delivery timed out; flush() has resolved after one onBlockReply call.
C20_Witness ==
    /\ params.attempts = 2
    /\ params.timeoutMs > 0
    /\ Len(sends) = 1
    /\ sends[1].err = BlockTimeoutError
    /\ sends[1].calls = 1
    /\ sends[1].signalAborted
    /\ FlushedPast(1)
    /\ isAborted

\* ------------------------------------ claims: the dispatcher's durable record
\* The pc values at which a store call on the record is outstanding.
RecordUpdatePcs == {"markDelivered", "ack", "failDelivery", "markDeliveryUncertain"}

\* C27: with a durable route, the first sender call for a payload is made
\* in the step in which its enqueueDelivery settles, not before; and
\* enqueueDelivery is called, and the record exists, only when every earlier
\* payload's link has run through.
C27_RecordBeforeSender ==
    /\ [][(options.durableRoute /\ senderView'.call # senderView.call) =>
            /\ pc[senderView'.call] = "enqueueDelivery"
            /\ pc'[senderView'.call] = "deliver"]_vars
    /\ [][\A i \in Links :
            (pc'[i] = "enqueueDelivery" /\ pc[i] # "enqueueDelivery")
            => \A j \in 1..(i - 1) : Decided(j)]_vars
    /\ [](\A i \in Links :
            (store[i] # "none" \/ pc[i] = "enqueueDelivery")
            => \A j \in 1..(i - 1) : Decided(j))

\* C27 witness: the first payload failed; the second has its record and is
\* at its first sender call.
C27_Witness ==
    /\ options.durableRoute
    /\ Len(calls) = 2
    /\ results[1].status = "failed"
    /\ pc[1] = "done"
    /\ store[2] = "enqueued"
    /\ pc[2] = "deliver"
    /\ senderView = [call |-> 2, n |-> 1]

\* C28: when enqueueDelivery fails the payload goes to the sender in that
\* very step; a link without a record never has a store call outstanding,
\* and it leaves the sender for its .finally with the result settled sent
\* or for its .catch with the result settled failed, whether a durable route
\* is configured or not.
C28_PersistFailureStillDelivers ==
    /\ [][\A i \in Links :
            (pc[i] = "enqueueDelivery" /\ pc'[i] # "enqueueDelivery" /\ queueId' = 0)
            => /\ pc'[i] = "deliver"
               /\ senderView' = [call |-> i, n |-> 1]
               /\ store'[i] = "none"]_vars
    /\ [](queueId = 0 => \A i \in Links : pc[i] \notin RecordUpdatePcs)
    /\ [][\A i \in Links :
            (pc[i] = "deliver" /\ queueId = 0 /\ pc'[i] \notin {"deliver", "backoff"})
            => \/ pc'[i] = "finally" /\ results'[i].status = "sent"
               \/ pc'[i] = "catch" /\ results'[i].status = "failed"]_vars
    /\ [](\A i \in Links :
            (pc[i] \in {"finally", "done"} /\ results[i].status = "none")
            => senderView.call # i)

\* C28 witness: with a durable route the record of the first payload could
\* not be persisted; the payload was sent all the same.
C28_Witness ==
    /\ options.durableRoute
    /\ Len(calls) >= 1
    /\ pc[1] = "done"
    /\ store[1] = "none"
    /\ senderView.call = 1
    /\ results[1].status = "sent"

\* A step in which the sender call of link i resolves.
SenderResolves(i) ==
    pc[i] = "deliver" /\ pc'[i] # "deliver" /\ lastErr' = NoError

\* C29: when the sender call of a payload with a record resolves,
\* markDeliveryDelivered is called; when that settles, either way, ackDelivery
\* is called; when that settles, either way, the result is settled sent.
\* Neither call is made otherwise or twice, and the record of a payload
\* settled sent is never failed or uncertain.
C29_DeliveredThenAcked ==
    /\ [][\A i \in Links :
            /\ (SenderResolves(i) /\ queueId # 0) => pc'[i] = "markDelivered"
            /\ (pc'[i] = "markDelivered" /\ pc[i] # "markDelivered")
               => SenderResolves(i)
            /\ (pc[i] = "markDelivered" /\ pc'[i] # "markDelivered")
               => pc'[i] = "ack"
            /\ (pc'[i] = "ack" /\ pc[i] # "ack") => pc[i] = "markDelivered"
            /\ (pc[i] = "ack" /\ pc'[i] # "ack")
               => pc'[i] = "finally" /\ results'[i].status = "sent"
            /\ (pc[i] \in {"ack", "finally", "done"})
               => pc'[i] \in {"ack", "finally", "done"}]_vars
    /\ [](\A i \in Links :
            results[i].status = "sent" => store[i] \notin {"failed", "uncertain"})

\* C29 witness: the sender accepted the first payload on a retry; both store
\* calls failed, the record is still enqueued and the result is sent.
C29_Witness ==
    /\ env.faults
    /\ Len(calls) >= 1
    /\ senderView = [call |-> 1, n |-> 2]
    /\ pc[1] = "done"
    /\ store[1] = "enqueued"
    /\ results[1].status = "sent"

\* ------------------------------------------- claims: timeout and cancellation
\* C30: when the sender is invoked for a payload after an earlier payload's
\* attempt ran into the delivery timeout, the sender of the timed-out attempt
\* holds a cancellation signal; likewise for onBlockReply in the pipeline,
\* where the signal of a timed-out delivery is aborted before any later
\* delivery calls onBlockReply.
C30_TimeoutAbortsSender ==
    /\ (/\ onResultArg.call > 0
        /\ onResultArg.status = "failed"
        /\ onResultArg.error = TimeoutError
        /\ senderView.call > onResultArg.call)
       => "abortSignal" \in DeliverOptions
    /\ \A i \in BlockLinks :
          (sends[i].err = BlockTimeoutError /\ \E j \in BlockLinks : j > i /\ sends[j].calls > 0)
          => "abortSignal" \in OnBlockReplyOptions /\ sends[i].signalAborted

\* ------------------------------------------------- claims: followup queue
\* A step in which enqueueFollowupRun is called.
FollowupEnqueueStep == fqLastEnqueue'.n = fqLastEnqueue.n + 1

\* The queued items with the trimmed message id and the routing of followup.
SameMessageAndRoute(followup) ==
    {k \in 1..Len(fqItems) :
        /\ trim(followup.messageId) # ""
        /\ trim(fqItems[k].messageId) = trim(followup.messageId)
        /\ fqItems[k].route = followup.route}

\* C21: in message-id mode, an enqueue of a run whose trimmed message id and
\* routing a queued item has replaces the first such item in place: its
\* prompt, message id and run are the new ones, its enqueuedAt the old one,
\* every other item and the queue length are unchanged, and the call
\* returns true.
C21_UpsertByMessageId ==
    [][(/\ FollowupEnqueueStep
        /\ fqConfig.dedupeMode = "message-id"
        /\ SameMessageAndRoute(fqLastEnqueue'.run) # {})
       => LET followup == fqLastEnqueue'.run
              k == MinIndex(SameMessageAndRoute(followup))
          IN  /\ Len(fqItems') = Len(fqItems)
              /\ fqItems'[k].prompt = followup.prompt
              /\ fqItems'[k].messageId = followup.messageId
              /\ fqItems'[k].route = followup.route
              /\ fqItems'[k].run = fqLastEnqueue'.n
              /\ fqItems'[k].enqueuedAt = fqItems[k].enqueuedAt
              /\ \A j \in 1..Len(fqItems) : j # k => fqItems'[j] = fqItems[j]
              /\ fqLastEnqueue'.returned]_vars

\* C21 witness: the first of two queued items was enqueued as "m1" and has
\* been edited by a third call giving the id as " m1 ".
C21_Witness ==
    /\ fqConfig.dedupeMode = "message-id"
    /\ fqLastEnqueue.n = 3
    /\ fqLastEnqueue.returned
    /\ fqLastEnqueue.run.messageId = " m1 "
    /\ Len(fqItems) = 2
    /\ fqItems[1] = [messageId |-> " m1 ", prompt |-> "edited text",
                     route |-> RouteA, enqueuedAt |-> 1, run |-> 3]
    /\ fqItems[2].enqueuedAt = 2

\* The items of a queue that are not in a batch, an item being known by its
\* enqueuedAt.
WithoutBatch(items, batch) ==
    SelectSeq(items, LAMBDA item :
        \A k \in 1..Len(batch) : batch[k].enqueuedAt # item.enqueuedAt)

\* seq ends with suffix.
EndsWith(seq, suffix) ==
    /\ Len(suffix) <= Len(seq)
    /\ SubSeq(seq, Len(seq) - Len(suffix) + 1, Len(seq)) = suffix

C23_ForceReleaseRemovesLock ==
    /\ (/\ lockResult.kind = "returned"
        /\ ~lockPayload.isNull
        /\ lockPayload.pid \notin {0, SelfPid})
       => /\ lockResult.removedLock
          /\ ~lockFile.exists
    /\ \A n \in 1..Len(lockSignals) :
          lockSignals[n].signal = "SIGTERM" => lockSignals[n].ownerAlive

\* ------------------------------------------- claims: freeing the gateway port
SignalsSent(signal) ==
    {n \in 1..Len(portSignals) : portSignals[n].signal = signal}

\* C24: the two force functions send SIGTERM first and SIGKILL only once the
\* SIGTERM budget is spent; a call that returns reports escalatedToSigkill
\* exactly when a SIGKILL was sent, and returns only with no target left; a
\* call that ends with targets left has spent the total budget and throws.
C24_SigtermThenSigkill ==
    /\ \A n \in SignalsSent("SIGKILL") :
          /\ \E m \in SignalsSent("SIGTERM") : m < n
          /\ portSignals[n].waitedMs >= portOpts.sigtermTimeoutMs
    /\ portResult.kind = "returned" =>
          /\ portResult.escalatedToSigkill <=> SignalsSent("SIGKILL") # {}
          /\ PortRemaining = {}
    /\ (portPc = "done" /\ PortRemaining # {}) =>
          /\ portResult.kind = "threw"
          /\ portWaitedMs >= portOpts.timeoutMs

\* ------------------------------------------- claims: pw-ai module cache
PwCallStep == Len(pwCalls') = Len(pwCalls) + 1

NewPwCall == pwCalls'[Len(pwCalls')]

PwFailedLoadStep ==
    /\ pwLastEvent'.n # pwLastEvent.n
    /\ pwLastEvent'.kind = "failed"

\* Once a module is cached it stays the cached module, and every call made
\* from then on returns it at once without invoking the loader; a load that
\* fails leaves the cache as it was.
PwCachedForGood ==
    /\ (PwCallStep /\ cachedPwAiModule # NullModule) =>
          /\ NewPwCall.st = "returned"
          /\ NewPwCall.value = cachedPwAiModule
          /\ pwLoaderCalls' = pwLoaderCalls
    /\ cachedPwAiModule # NullModule => cachedPwAiModule' = cachedPwAiModule
    /\ PwFailedLoadStep => cachedPwAiModule' = cachedPwAiModule

\* C25 as stated: getPwAiModule returns the cached module without invoking
\* the loader once a load has succeeded; a failed load is not cached, and
\* the next call after it invokes the loader again.
C25_NextCallReloads ==
    [][/\ PwCachedForGood
       /\ (/\ PwCallStep
           /\ pwLastEvent.kind = "failed"
           /\ cachedPwAiModule = NullModule)
          => pwLoaderCalls' = pwLoaderCalls + 1]_vars

\* C25, amended: as stated, except that the next call after a failed load
\* invokes the loader again unless a load of its own mode is still in
\* flight, which it joins.
C25_FailedLoadNotCached ==
    [][/\ PwCachedForGood
       /\ (/\ PwCallStep
           /\ pwLastEvent.kind = "failed"
           /\ cachedPwAiModule = NullModule)
          => pwLoaderCalls' =
                 IF InflightOf(NewPwCall.mode) THEN pwLoaderCalls
                 ELSE pwLoaderCalls + 1]_vars

\* A soft load failed and gave null, the next call loaded the module with a
\* second loader call, and a third call got the cached module without a
\* third.
C25_Witness ==
    /\ Len(pwCalls) = 3
    /\ pwCalls[1] = [mode |-> "soft", st |-> "returned", value |-> NullModule]
    /\ pwCalls[2].st = "returned"
    /\ pwCalls[2].value = PwAiModule
    /\ pwCalls[3] = [mode |-> "strict", st |-> "returned", value |-> PwAiModule]
    /\ pwLastEvent.kind = "call"
    /\ pwLoaderCalls = 2
    /\ ~pwAiModuleSoftInflight
    /\ ~pwAiModuleStrictInflight

\* ------------------------------------------- claims: Telegram command menu
MenuCallsOf(k, op) ==
    {n \in 1..Len(menuApi) : menuApi[n].sync = k /\ menuApi[n].op = op}

\* C26: a sync invokes setMyCommands only once its deleteMyCommands request
\* has settled, after the last of the request's attempts; and a sync whose
\* delete failed still invokes setMyCommands when there are commands to
\* register.
C26_DeleteSettlesBeforeSet ==
    \A k \in Syncs :
        /\ \A n \in MenuCallsOf(k, "setMyCommands") :
              /\ menuParams.hasDelete => menuDelete[k] # "none"
              /\ \A m \in MenuCallsOf(k, "deleteMyCommands") : m < n
        /\ (menuDelete[k] = "failed" /\ menuParams.commands > 0) =>
              MenuCallsOf(k, "setMyCommands") # {}

\* The delete of the first sync was retried and failed for good, and the
\* sync went on to setMyCommands.
C26_Witness ==
    /\ menuParams.attempts > 1
    /\ menuDelete[1] = "failed"
    /\ Cardinality(MenuCallsOf(1, "deleteMyCommands")) = menuParams.attempts
    /\ MenuCallsOf(1, "setMyCommands") # {}

\* ------------------------------------------------- claims: human delay
\* C31: a link waits in the human-delay sleep only if its payload is of kind
\* block and an earlier block of this dispatcher has been sent; tool and
\* final payloads, and a block with no sent block before it, never sleep.
C31_DelayOnlyAfterSentBlock ==
    \A i \in Links :
        pc[i] = "sleep" =>
            /\ calls[i].kind = "block"
            /\ \E j \in 1..(i - 1) :
                   calls[j].kind = "block" /\ results[j].status = "sent"

\* -------------------------------------------------- claims: skipped payloads
\* The payload of the enqueue call made in this step was skipped by
\* normalisation (an empty or a silent reply).
C32_NormalizationSkips ==
    /\ EnqueueStep
    /\ calls'[Len(calls')].key \in {"", "NO_REPLY"}

\* C32: an enqueue whose payload normalisation skips returns false, settles
\* the result as skipped with the reason normalisation reported, and leaves
\* pending, queuedCounts and the links of the send chain as they were; the
\* sender is never invoked for a payload that got no link.
C32_SkipLeavesStateUnchanged ==
    [][/\ C32_NormalizationSkips =>
            LET i == Len(calls') IN
            /\ ~calls'[i].accepted
            /\ results'[i].status = "skipped"
            /\ results'[i].reason =
                  (IF calls'[i].key = "NO_REPLY" THEN "silent" ELSE "empty")
            /\ results'[i].n = 1
            /\ pc'[i] = "none"
            /\ pending' = pending
            /\ queuedCounts' = queuedCounts
            /\ SubSeq(pc', 1, Len(pc)) = pc
            /\ senderView' = senderView
       /\ \A i \in Links :
            pc[i] = "none" => pc'[i] = "none" /\ senderView'.call # i]_vars

C32_Witness ==
    /\ Len(calls) = 2
    /\ calls[1].accepted
    /\ calls[2].key = "NO_REPLY"
    /\ results[2] = [status |-> "skipped", reason |-> "silent", n |-> 1]
    /\ pc[1] = "done"
    /\ pc[2] = "none"
    /\ results[1].status = "sent"
    /\ pending = 0

\* ---------------------------------------------- claims: error classification
C33_AmbiguousCode ==
    clsErr.code # "" /\ toUpperCase(clsErr.code) \in BLOCK_DELIVERY_AMBIGUOUS_ERRNO_CODES

C33_TransientCode ==
    clsErr.code # "" /\ toUpperCase(clsErr.code) \in BLOCK_DELIVERY_TRANSIENT_ERRNO_CODES

C33_IsSentinel ==
    clsTimeoutOn /\ clsErr = TimeoutError

\* C33: the class is that of the first rule that matches, in the order
\* permanent marker, ambiguous code or timeout sentinel, definitive-transient
\* code, message patterns; an error with a permanent marker is permanent
\* whatever its code and whatever patterns its message matches.
C33_FirstMatchingRule ==
    clsOut # "none" =>
        IF isPermanentDeliveryError(clsErr.message)
        THEN clsOut = "permanent"
        ELSE IF C33_AmbiguousCode \/ C33_IsSentinel
        THEN clsOut = "transient-ambiguous"
        ELSE IF C33_TransientCode
        THEN clsOut = "transient-definitive"
        ELSE IF PatternsIn(clsErr.message) = {}
        THEN clsOut = "permanent"
        ELSE clsOut \in {"transient-ambiguous", "transient-definitive"}

\* An error with a permanent marker, an ambiguous code and a message that
\* matches the transient pattern has been classified.
C33_Witness ==
    /\ clsOut = "permanent"
    /\ clsErr.message = MsgUnavailableNotFound
    /\ clsErr.code = "ECONNRESET"
    /\ BLOCK_DELIVERY_TRANSIENT_ERROR_RE(clsErr.message)

\* C34: for an error with no code of the two tables and no permanent marker,
\* a message that tells of a failed connect is classified
\* transient-definitive (and so retried), and one that tells of a socket
\* reset or hang-up is classified transient-ambiguous (and so not retried).
C34_ConnectDefinitiveResetAmbiguous ==
    (/\ clsOut # "none"
     /\ ~C33_IsSentinel
     /\ ~C33_AmbiguousCode
     /\ ~C33_TransientCode
     /\ ~isPermanentDeliveryError(clsErr.message))
    => /\ "connect" \in PatternsIn(clsErr.message)
            => clsOut = "transient-definitive"
       /\ PatternsIn(clsErr.message) \cap {"socket", "reset", "hang up"} # {}
            => clsOut = "transient-ambiguous"

\* ------------------------------------------- claims: one sender call at a time
\* Sender invocations of this dispatcher that have not settled: the one the
\* running link awaits, and those a delivery timeout left behind.
C35_UnsettledSenderCalls ==
    Cardinality({j \in Links : pc[j] = "deliver"}) + Cardinality(abandoned)

\* C35: at no time is more than one sender invocation of the dispatcher
\* unsettled: no retry and no later payload reaches the sender while an
\* earlier invocation is still running, a timed-out one included.
C35_OneUnsettledSenderCall ==
    C35_UnsettledSenderCalls <= 1

\* ------------------------------------------- claims: no followup run is lost
\* The item is no longer among queue.items after the step.
C36_LeavesQueue(item) ==
    \A j \in 1..Len(fqItems') : fqItems'[j].enqueuedAt # item.enqueuedAt

\* The step is the return of a runFollowup call that resolved, and the item
\* was part of the batch handed to it.
C36_DeliveredInBatch(item) ==
    /\ fqPc = "run"
    /\ fqPc' # "run"
    /\ fqFailures' = fqFailures
    /\ \E b \in 1..Len(fqLocal.items) :
          fqLocal.items[b].enqueuedAt = item.enqueuedAt

\* C36: a run enqueueFollowupRun accepted stays queued until a runFollowup
\* call that carried it has resolved, so that it is handed to runFollowup as
\* long as it has not got through; runs enqueued during a runFollowup call
\* and runs of a failed batch included.  (Items the drop policy removes at
\* the cap and items with a blank prompt are left aside.)
C36_NoAcceptedRunLost ==
    [][\A k \in 1..Len(fqItems) :
          C36_LeavesQueue(fqItems[k])
          => \/ C36_DeliveredInBatch(fqItems[k])
             \/ FollowupEnqueueStep /\ Len(fqItems) >= fqConfig.cap
             \/ trim(fqItems[k].prompt) = ""]_vars

\* ---------------------------------------------- claims: one drain per key
\* A runFollowup call is pending.
C37_RunFollowupPending ==
    fqPc \in {"run", "runSummary"}

\* C37: at most one drain loop of the key is running; a scheduleFollowupDrain
\* call on a draining queue returns without touching the queue or starting a
\* loop, and no runFollowup call starts while another is pending; when the
\* drain ends the queue leaves FOLLOWUP_QUEUES only with no items and no
\* dropped count, and a queue that has either is being drained again.
C37_OneDrainPerKey ==
    /\ [](fqLoops <= 1 /\ (fqLoops = 1 <=> fqDraining))
    /\ [][(fqDraining /\ fqLastSchedule' # fqLastSchedule)
            => /\ fqLastSchedule' = "refused"
               /\ UNCHANGED <<fqExists, fqItems, fqDroppedCount, fqDraining, fqPc,
                              fqLocal, fqLastCall, fqLoops>>]_vars
    /\ [][fqLastCall'.n # fqLastCall.n => ~C37_RunFollowupPending]_vars
    /\ [][(fqExists /\ ~fqExists')
            => fqItems' = <<>> /\ fqDroppedCount' = 0 /\ ~fqDraining']_vars
    /\ [][(fqDraining /\ (fqItems' # <<>> \/ fqDroppedCount' > 0))
            => fqDraining' /\ fqExists' /\ fqLoops' = 1]_vars

\* C37 witness: scheduleFollowupDrain was called while runFollowup was
\* pending for the first item, and a second item waits in the queue.
C37_Witness ==
    /\ fqPc = "run"
    /\ fqLastSchedule = "refused"
    /\ fqLoops = 1
    /\ fqLastCall.n = 1
    /\ Len(fqItems) = 2

\* --------------------------------------- claims: gateway lock mutual exclusion
\* The processes that acquireGatewayLock has handed a lock handle to and
\* that have not released it.
C38_Holders ==
    {p \in AcquirerPids : acqPc[p] = "held"}

\* C38: at no time do two processes hold the gateway lock of one config
\* path, however the calls of concurrent acquirers interleave, also when
\* both find the lock file of a dead or stale owner and remove it.
C38_MutualExclusion ==
    Cardinality(C38_Holders) <= 1

\* ------------------------------------- claims: the pipeline after a failure
\* Some delivery of the pipeline was given up (an error or a timeout).
C39_EarlierDeliveryFailed ==
    \E j \in BlockLinks : BlockGaveUp(j)

\* The payload of the enqueue call made in this step has a key the pipeline
\* has not seen.
C39_EnqueuesNewKey ==
    /\ PipelineEnqueueStep
    /\ createBlockReplyPayloadKey(lastEnqueue'.payload)
          \notin (seenKeys \cup sentKeys \cup pendingKeys)

C40_TriggerStep ==
    RunInvocations' = RunInvocations + 1

\* C40: every rejection of recoverPendingDeliveries is logged by the loop
\* and reaches no run(), runNow() or stop() caller; the step in which a pass
\* fails leaves isRunning() false; a trigger that finds the loop not stopped
\* and no pass in flight starts a new pass, after a failed pass as after any
\* other; and isRunning() is true exactly while a pass is in flight.
C40_FailedPassIsContained ==
    /\ [](/\ passErrors.logged = passErrors.failed
          /\ passErrors.rejected = {}
          /\ passErrors.propagated = 0
          /\ isRunning <=> scanning # {})
    /\ [][passErrors'.failed # passErrors.failed
            => ~isRunning' /\ scanning' = {} /\ awaiting' = awaiting]_vars
    /\ [][(C40_TriggerStep /\ ~stopped /\ ~isRunning)
            => /\ scanCalls' = scanCalls + 1
               /\ isRunning'
               /\ scanning' = {scanCalls + 1}]_vars

\* C40 witness: the first pass failed and was logged; a later trigger
\* started the second pass, which is in flight.
C40_Witness ==
    /\ passErrors.failed = 1
    /\ passErrors.logged = 1
    /\ scanCalls = 2
    /\ scanning = {2}
    /\ isRunning
    /\ ~stopped

====
